---- MODULE Spec2Model ----
(***************************************************************************)
(* RGAAudit: the audit worker pool (auditPages), its progress-event stream *)
(* and the session checkpoint store (saveSessionState) of                  *)
(* packages/core/analyzer/analyzer.ts.                                     *)
(*                                                                         *)
(* One action per continuation of the asynchronous code: a worker's step   *)
(* runs from one `await` to the next, which is the granularity at which    *)
(* the single-threaded event loop interleaves workers, the generator and   *)
(* the file-system operations handed to the thread pool.                   *)
(***************************************************************************)
EXTENDS Integers, Sequences, FiniteSets, TLC

\* ------------------------------------------------------------------------
\* Bounds of the model
\* ------------------------------------------------------------------------
MaxUrls == 3        \* longest input URL list, pool-level runs
MaxSaveUrls == 2    \* longest input URL list, file-level runs
MaxReq == 4         \* largest requested options.maxConcurrent
MaxServerUrls == 2  \* longest input URL list, server-level runs
MaxRules == 2       \* rule ids of the rule engine, mapper runs
MaxFlags == 2       \* evidence flags of the data collector, mapper runs
MaxElems == 1       \* longest list of collected elements of one kind

\* ------------------------------------------------------------------------
\* Program constants
\* ------------------------------------------------------------------------
HardCeiling == 3          \* Math.min(..., 3)
DefaultConcurrent == 2    \* options.maxConcurrent ?? 2

Workers == 1..HardCeiling
UrlIds == 1..(IF MaxUrls >= MaxSaveUrls THEN MaxUrls ELSE MaxSaveUrls)

\* URLs are opaque strings: a list is drawn up to renaming of its URLs
\* (first URL is 1, a new URL is the next unused number).  Repeated URLs
\* are kept: nothing in auditPages or in POST /api/audit/start removes them.
UrlLists(max) ==
  { s \in UNION { [1..n -> UrlIds] : n \in 1..max } :
      /\ s[1] = 1
      /\ \A i \in 2..Len(s) : \E j \in 1..(i-1) : s[i] <= s[j] + 1 }

\* options.maxConcurrent: <<>> is undefined, <<n>> the requested number.
MaxConcurrentOpts == { <<>> } \cup { <<n>> : n \in 0..MaxReq }

Min(a, b) == IF a <= b THEN a ELSE b

\* Mutant: the default is the ceiling instead of 2.
ConcurrencyDefaultCeiling(opt) ==
  Min(IF opt = <<>> THEN HardCeiling ELSE opt[1], HardCeiling)

\* const concurrency = Math.min(options.maxConcurrent ?? 2, 3)
Concurrency(opt) ==
  Min(IF opt = <<>> THEN DefaultConcurrent ELSE opt[1], HardCeiling)

\* Outcomes of one page audit, chosen by the environment (the web site, the
\* browser, the rule engine).
Outcomes == { "ok", "navError", "engineError" }

\* AxeCoreAdapter.analyze never throws: it returns the findings or {error}.
Analyze(outcome) == IF outcome = "engineError" THEN "error" ELSE "findings"

\* Mutant: a rule-engine error is treated like a navigation error.
AuditPageEngineErrorFails(url, outcome) ==
  IF outcome \in {"navError", "engineError"}
  THEN [url |-> url, axeResults |-> "null", error |-> "message"]
  ELSE [url |-> url, axeResults |-> "findings", error |-> "null"]

\* auditPage: page.goto throwing (navigation error, timeout) is caught and
\* becomes PageResult.error; otherwise the result carries whatever
\* engine.analyze returned, with error null.
AuditPage(url, outcome) ==
  IF outcome = "navError"
  THEN [url |-> url, axeResults |-> "null", error |-> "message"]
  ELSE [url |-> url, axeResults |-> Analyze(outcome), error |-> "null"]

\* ------------------------------------------------------------------------
\* Session state and files
\* ------------------------------------------------------------------------
EmptyResults == [u \in {} |-> 0]

InitialState(urls) ==
  [ totalPages |-> Len(urls),
    completedPages |-> <<>>,
    pendingPages |-> urls,
    results |-> EmptyResults ]

\* Mutant: the URL is not removed from pendingPages.
RecordResultKeepPending(st, url, result) ==
  [ st EXCEPT
      !.completedPages = Append(st.completedPages, url),
      !.results = [ u \in (DOMAIN st.results) \cup {url} |->
                      IF u = url THEN result ELSE st.results[u] ] ]

\* lines 181-183: the three synchronous updates of the shared session state
RecordResult(st, url, result) ==
  [ st EXCEPT
      !.pendingPages = SelectSeq(st.pendingPages, LAMBDA u : u /= url),
      !.completedPages = Append(st.completedPages, url),
      !.results = [ u \in (DOMAIN st.results) \cup {url} |->
                      IF u = url THEN result ELSE st.results[u] ] ]

NoData == InitialState(<<>>)
NoFile == [exists |-> FALSE, complete |-> FALSE, data |-> NoData]
Truncated == [exists |-> TRUE, complete |-> FALSE, data |-> NoData]
Written(d) == [exists |-> TRUE, complete |-> TRUE, data |-> d]

VARIABLES
  urls,             \* the input list of auditPages
  maxConcurrent,    \* options.maxConcurrent
  state,            \* SessionState of the run
  urlQueue,         \* the shared URL queue
  eventBuffer,      \* events pushed and not yet yielded
  pushed,           \* every event handed to pushEvent so far, in call order
  notifyResolve,    \* TRUE when the generator waits in waitForEvent
  genPc,            \* "idle", "loop", "waiting", "done", "returned", "killed"
  allDone,          \* the allDone flag
  allWorkersPromise,\* "pending", "fulfilled", "rejected"
  wpc,              \* per worker: position in worker()/saveSessionState
  wurl,             \* per worker: the URL it is auditing
  wdata,            \* per worker: the JSON text handed to writeFile
  fd,               \* per worker: what its open descriptor refers to
  tmpFile,          \* the file at '<final>.tmp'
  finalFile,        \* the file at the final path
  stream,           \* events the consumer has received
  taken,            \* history: URLs in the order workers dequeued them
  saved,            \* history: URLs whose saveSessionState has returned
  saveFailed,       \* history: a saveSessionState call has rejected
  outcomes,         \* history: how each recorded page audit went, in order
  srv,              \* the audit routes of the server and their SSE client
  mp,               \* a call of the mapper: its input and its output
  ag,               \* a call of aggregateResults: its input and its output
  lm,               \* the mapping file, the cache of loadMapping and its calls
  api,              \* POST /api/audit/start: sessions, requests and answers
  ap,               \* a call of auditPage: what the page does and the result
  sse,              \* the SSEManager: its clients and the responses handed to it
  view              \* the AuditProgress view: its React state

vars == << urls, maxConcurrent, state, urlQueue, eventBuffer, pushed,
          notifyResolve,
           genPc, allDone, allWorkersPromise, wpc, wurl, wdata, fd, tmpFile,
           finalFile, stream, taken, saved, saveFailed, outcomes, srv, mp, ag, lm, api, ap, sse, view >>

\* No request has reached the audit routes.
NoServer ==
  [ registered |-> FALSE, cancelled |-> FALSE, connected |-> FALSE,
    completed |-> <<>>, sent |-> <<>>, sentAtCancel |-> 0,
    inFlightAtCancel |-> {}, doneAtCancel |-> 0, cut |-> {},
    cutInFlight |-> {}, lateSubscriber |-> FALSE ]

\* ------------------------------------------------------------------------
\* The mapper (packages/core/mapping/mapper.ts)
\* ------------------------------------------------------------------------
RuleIds == 1..MaxRules
FlagIds == 1..MaxFlags
Strategies == { "MANUAL_ONLY", "ANY_VIOLATION", "ALL_PASS", "UNKNOWN" }

\* RgaaCriterion: what mapCriterion reads of a catalog entry.
Criteria ==
  [ id : {"c"}, evaluationStrategy : Strategies, axeRules : SUBSET RuleIds,
    dataCollectorFlags : SUBSET FlagIds ]

\* AnalyzeResult | null: null, { error } (the message may be the empty
\* string), or the findings by category, each a set of rule ids.
NullResult == [kind |-> "null"]
ErrorResults == { [kind |-> "error", error |-> e] : e \in {"", "message"} }
EngineResults ==
  [ kind : {"result"}, violations : SUBSET RuleIds, passes : SUBSET RuleIds,
    incomplete : SUBSET RuleIds ]
AnalyzeResults == {NullResult} \cup ErrorResults \cup EngineResults

\* CollectedData | null: images and links (one list, the two loops of
\* extractElements being the same), headings, page-level heading flags.
NullData == [kind |-> "null"]
ElementLists(sel) ==
  UNION { [1..n -> [selector : {sel}, flags : SUBSET FlagIds]] :
            n \in 0..MaxElems }
CollectedDatas ==
  {NullData} \cup
  [ kind : {"data"}, elements : ElementLists("img"),
    headings : ElementLists("h1"), pageFlags : SUBSET FlagIds ]

\* JavaScript truthiness of a string
Truthy(s) == s /= ""

\* The members of a set of numbers as a list, in increasing order
RECURSIVE SortedSeq(_)
SortedSeq(S) ==
  IF S = {} THEN <<>>
  ELSE LET x == CHOOSE y \in S : \A z \in S : y <= z
       IN <<x>> \o SortedSeq(S \ {x})

\* extractElements, images and links: the elements with a relevant flag, each
\* with its relevant flags.
MatchingElements(elems, relevant) ==
  LET kept == SelectSeq(elems, LAMBDA e : e.flags \cap relevant /= {})
  IN [ i \in DOMAIN kept |->
         [selector |-> kept[i].selector, flags |-> kept[i].flags \cap relevant] ]

\* extractElements, headings: one entry per relevant flag of a heading.
RECURSIVE HeadingElements(_, _)
HeadingElements(heads, relevant) ==
  IF heads = <<>> THEN <<>>
  ELSE LET fs == SortedSeq(Head(heads).flags \cap relevant)
       IN [ i \in DOMAIN fs |->
              [selector |-> Head(heads).selector, flags |-> {fs[i]}] ]
            \o HeadingElements(Tail(heads), relevant)

\* extractElements, page-level flags: a 'document' entry for a relevant flag
\* that no entry carries yet.
PageFlagElements(pageFlags, relevant, elements) ==
  LET fs == SortedSeq({ f \in pageFlags \cap relevant :
                         \A i \in DOMAIN elements : f \notin elements[i].flags })
  IN [ i \in DOMAIN fs |-> [selector |-> "document", flags |-> {fs[i]}] ]

extractElements(criterion, collectedData) ==
  IF collectedData.kind = "null" THEN <<>>
  ELSE LET relevant == criterion.dataCollectorFlags
           found == MatchingElements(collectedData.elements, relevant)
                      \o HeadingElements(collectedData.headings, relevant)
       IN found \o PageFlagElements(collectedData.pageFlags, relevant, found)

Mapped(criterion, status, violations, incompletes, elements) ==
  [ rgaaId |-> criterion.id, status |-> status, violations |-> violations,
    incompletes |-> incompletes, elements |-> elements ]

\* Reading .violations of a value that has no such property gives undefined,
\* and calling .filter on it throws a TypeError.
Throws(criterion) == Mapped(criterion, "TypeError", {}, {}, <<>>)

\* Mutant: an incomplete finding outranks a violation.
mapAnyViolationIncompleteFirst(criterion, result, elements) ==
  IF result.kind /= "result" THEN Throws(criterion)
  ELSE LET violations == { v \in result.violations : v \in criterion.axeRules }
           incompletes == { i \in result.incomplete : i \in criterion.axeRules }
       IN Mapped(criterion,
                 IF incompletes /= {} THEN "incomplete"
                 ELSE IF violations /= {} THEN "violation" ELSE "pass",
                 violations, incompletes, elements)

mapAnyViolation(criterion, result, elements) ==
  IF result.kind /= "result" THEN Throws(criterion)
  ELSE LET violations == { v \in result.violations : v \in criterion.axeRules }
           incompletes == { i \in result.incomplete : i \in criterion.axeRules }
       IN Mapped(criterion,
                 IF violations /= {} THEN "violation"
                 ELSE IF incompletes /= {} THEN "incomplete" ELSE "pass",
                 violations, incompletes, elements)

\* Mutant: one passing rule of the criterion is enough (some, not every).
mapAllPassSome(criterion, result, elements) ==
  IF result.kind /= "result" THEN Throws(criterion)
  ELSE LET violations == { v \in result.violations : v \in criterion.axeRules }
           incompletes == { i \in result.incomplete : i \in criterion.axeRules }
           somePass == \E rule \in criterion.axeRules : rule \in result.passes
       IN IF violations /= {}
          THEN Mapped(criterion, "violation", violations, incompletes, elements)
          ELSE IF somePass
          THEN Mapped(criterion, "pass", {}, incompletes, elements)
          ELSE Mapped(criterion, "incomplete", {}, incompletes, elements)

mapAllPass(criterion, result, elements) ==
  IF result.kind /= "result" THEN Throws(criterion)
  ELSE LET violations == { v \in result.violations : v \in criterion.axeRules }
           incompletes == { i \in result.incomplete : i \in criterion.axeRules }
           allPass == \A rule \in criterion.axeRules : rule \in result.passes
       IN IF violations /= {}
          THEN Mapped(criterion, "violation", violations, incompletes, elements)
          ELSE IF allPass
          THEN Mapped(criterion, "pass", {}, incompletes, elements)
          ELSE Mapped(criterion, "incomplete", {}, incompletes, elements)

\* Mutant: the strategy is looked at after the results, and a MANUAL_ONLY
\* criterion with present results is mapped as an ANY_VIOLATION one.
mapCriterionFindingsFirst(criterion, axeResults, collectedData) ==
  LET elements == extractElements(criterion, collectedData)
  IN IF \/ axeResults.kind = "null"
        \/ axeResults.kind = "error"
     THEN Mapped(criterion, "manual", {}, {}, elements)
     ELSE IF criterion.evaluationStrategy \in {"ANY_VIOLATION", "MANUAL_ONLY"}
     THEN mapAnyViolation(criterion, axeResults, elements)
     ELSE IF criterion.evaluationStrategy = "ALL_PASS"
     THEN mapAllPass(criterion, axeResults, elements)
     ELSE Mapped(criterion, "manual", {}, {}, elements)

mapCriterion(criterion, axeResults, collectedData) ==
  LET elements == extractElements(criterion, collectedData)
  IN IF criterion.evaluationStrategy = "MANUAL_ONLY"
     THEN Mapped(criterion, "manual", {}, {}, elements)
     ELSE IF \/ axeResults.kind = "null"
             \/ axeResults.kind = "error" /\ Truthy(axeResults.error)
     THEN Mapped(criterion, "manual", {}, {}, elements)
     ELSE IF criterion.evaluationStrategy = "ANY_VIOLATION"
     THEN mapAnyViolation(criterion, axeResults, elements)
     ELSE IF criterion.evaluationStrategy = "ALL_PASS"
     THEN mapAllPass(criterion, axeResults, elements)
     ELSE Mapped(criterion, "manual", {}, {}, elements)

\* mapPageResults: every criterion of the catalog mapped in order; an
\* exception of mapCriterion leaves mapPageResults.
mapPageResults(catalog, axeResults, collectedData) ==
  LET criteria == [ i \in DOMAIN catalog |->
                      mapCriterion(catalog[i], axeResults, collectedData) ]
  IN IF \E i \in DOMAIN criteria : criteria[i].status = "TypeError"
     THEN [threw |-> TRUE, criteria |-> <<>>]
     ELSE [threw |-> FALSE, criteria |-> criteria]

MapperInputs ==
  [ catalog : { <<c>> : c \in Criteria }, axeResults : AnalyzeResults,
    collectedData : CollectedDatas ]

\* No call of the mapper.
NoMapping ==
  [ done |-> FALSE,
    input |-> [catalog |-> <<>>, axeResults |-> NullResult,
               collectedData |-> NullData],
    output |-> [threw |-> FALSE, criteria |-> <<>>] ]

\* ------------------------------------------------------------------------
\* aggregateResults and detectDuplicateLabels
\* ------------------------------------------------------------------------
Statuses == {"violation", "pass", "manual", "incomplete"}

\* rgaa.id of the criteria of the catalog, in catalog order; the ids of a
\* catalog are distinct.
CatalogIds == <<"1.1", "6.1", "8.6", "9.1", "11.1", "12.1">>
ShortCatalog == SubSeq(CatalogIds, 1, 2)
UnknownId == "99.9"

\* LinkData: accessibleLabel (null is taken as the empty string, both being
\* falsy), href (null for a button, or the attribute's value, which may be
\* empty) and the selector collectLinks builds from the href.
Labels == {"", " ", "Lire", "lire ", "Plan"}
NoHref == "null"
Hrefs == {NoHref, "", "/a", "/b"}
HasHref(href) == href /= NoHref /\ Truthy(href)
LinkSelector(href) == IF HasHref(href) THEN <<"a", href>> ELSE <<"a">>
Links ==
  { [selector |-> LinkSelector(h), accessibleLabel |-> l, href |-> h] :
      l \in Labels, h \in Hrefs }

ToLowerCase(s) ==
  CASE s = "Lire" -> "lire"
    [] s = "Plan" -> "plan"
    [] OTHER -> s
Trim(s) ==
  CASE s = " " -> ""
    [] s = "lire " -> "lire"
    [] OTHER -> s
Normalized(label) == Trim(ToLowerCase(label))

\* The links of every entry that has collected data.
AllLinks(allCollectedData) ==
  UNION { { d.collectedData.links[j] : j \in DOMAIN d.collectedData.links } :
            d \in { allCollectedData[i] :
                      i \in { k \in DOMAIN allCollectedData :
                                allCollectedData[k].collectedData.kind = "data" } } }

\* labelMap: the hrefs recorded under a normalized label.
labelMap(allCollectedData, normalized) ==
  { link.href : link \in { l \in AllLinks(allCollectedData) :
                             /\ Truthy(l.accessibleLabel)
                             /\ Trim(l.accessibleLabel) /= ""
                             /\ Normalized(l.accessibleLabel) = normalized
                             /\ HasHref(l.href) } }

duplicateLabels(allCollectedData) ==
  { n \in { Normalized(l.accessibleLabel) : l \in AllLinks(allCollectedData) } :
      Cardinality(labelMap(allCollectedData, n)) > 1 }

\* The loop over the links of one page: the element with the link's selector
\* gets the flag, or a new element is pushed; a pass becomes a violation.
RECURSIVE FlagLinks(_, _, _)
FlagLinks(criterion61, links, duplicates) ==
  IF links = <<>> THEN criterion61
  ELSE LET link == Head(links)
           els == criterion61.elements
           found == { i \in DOMAIN els : els[i].selector = link.selector }
           first == CHOOSE i \in found : \A j \in found : i <= j
           flagged ==
             IF found /= {}
             THEN [els EXCEPT ![first].flags = @ \cup {"DUPLICATE_LABEL"}]
             ELSE Append(els, [selector |-> link.selector,
                               flags |-> {"DUPLICATE_LABEL"}])
           next ==
             IF /\ Truthy(link.accessibleLabel)
                /\ Normalized(link.accessibleLabel) \in duplicates
             THEN [criterion61 EXCEPT
                     !.elements = flagged,
                     !.status = IF @ = "pass" THEN "violation" ELSE @]
             ELSE criterion61
       IN FlagLinks(next, Tail(links), duplicates)

\* Array.prototype.find: the least of the indices that satisfy the
\* condition, 0 if there is none.
FirstIndex(hits) ==
  IF hits = {} THEN 0 ELSE CHOOSE i \in hits : \A j \in hits : i <= j

\* Mutant: a label counts as duplicated as soon as it has one destination
\* (urls.size > 0).
detectDuplicateLabelsAnyHref(mappedPages, allCollectedData) ==
  LET duplicates ==
        { n \in { Normalized(l.accessibleLabel) :
                    l \in AllLinks(allCollectedData) } :
            Cardinality(labelMap(allCollectedData, n)) > 0 }
      Update(page) ==
        LET c == FirstIndex({ i \in DOMAIN page.criteria :
                                page.criteria[i].rgaaId = "6.1" })
            d == FirstIndex({ i \in DOMAIN allCollectedData :
                                allCollectedData[i].url = page.url })
        IN IF c = 0 \/ d = 0 THEN page
           ELSE IF allCollectedData[d].collectedData.kind /= "data" THEN page
           ELSE [page EXCEPT !.criteria[c] =
                   FlagLinks(@, allCollectedData[d].collectedData.links,
                             duplicates)]
  IN IF duplicates = {} THEN mappedPages
     ELSE [ p \in DOMAIN mappedPages |-> Update(mappedPages[p]) ]

\* detectDuplicateLabels mutates the pages it is given: the value is the
\* pages after the call.
detectDuplicateLabels(mappedPages, allCollectedData) ==
  LET duplicates == duplicateLabels(allCollectedData)
      Update(page) ==
        LET c == FirstIndex({ i \in DOMAIN page.criteria :
                                page.criteria[i].rgaaId = "6.1" })
            d == FirstIndex({ i \in DOMAIN allCollectedData :
                                allCollectedData[i].url = page.url })
        IN IF c = 0 \/ d = 0 THEN page
           ELSE IF allCollectedData[d].collectedData.kind /= "data" THEN page
           ELSE [page EXCEPT !.criteria[c] =
                   FlagLinks(@, allCollectedData[d].collectedData.links,
                             duplicates)]
  IN IF duplicates = {} THEN mappedPages
     ELSE [ p \in DOMAIN mappedPages |-> Update(mappedPages[p]) ]

\* The URLs pushed to one list of one criterion while the pages are folded.
RECURSIVE PagesWith(_, _, _)
PagesWith(mappedPages, id, status) ==
  IF mappedPages = <<>> THEN <<>>
  ELSE LET page == Head(mappedPages)
           hits == SelectSeq(page.criteria,
                             LAMBDA c : c.rgaaId = id /\ c.status = status)
       IN [ i \in DOMAIN hits |-> page.url ]
            \o PagesWith(Tail(mappedPages), id, status)

\* Mutant: a passing page outranks an incomplete one.
FinalStatusPassFirst(agg) ==
  IF Len(agg.pagesViolating) > 0 THEN "violation"
  ELSE IF Len(agg.pagesPass) > 0 THEN "pass"
  ELSE IF Len(agg.pagesIncomplete) > 0 THEN "incomplete"
  ELSE "manual"

\* Mutant: a criterion no page classified keeps the status it was
\* initialized with.
FinalStatusKeepInitial(agg) ==
  IF Len(agg.pagesViolating) > 0 THEN "violation"
  ELSE IF Len(agg.pagesIncomplete) > 0 THEN "incomplete"
  ELSE IF Len(agg.pagesManual) > 0 /\ Len(agg.pagesPass) = 0 THEN "manual"
  ELSE agg.status

FinalStatus(agg) ==
  IF Len(agg.pagesViolating) > 0 THEN "violation"
  ELSE IF Len(agg.pagesIncomplete) > 0 THEN "incomplete"
  ELSE IF Len(agg.pagesManual) > 0 /\ Len(agg.pagesPass) = 0 THEN "manual"
  ELSE IF Len(agg.pagesPass) > 0 THEN "pass"
  ELSE "manual"

\* Mutant: pages are folded only into the entries of criteria the first page
\* mentions.
AggregatedOfFirstPage(catalog, mappedPages) ==
  LET known == IF mappedPages = <<>> THEN {}
               ELSE { Head(mappedPages).criteria[i].rgaaId :
                        i \in DOMAIN Head(mappedPages).criteria }
      kept == SelectSeq(catalog, LAMBDA id : id \in known)
  IN [ i \in DOMAIN kept |->
         LET folded ==
               [ rgaaId |-> kept[i], status |-> "pass",
                 pagesViolating |-> PagesWith(mappedPages, kept[i], "violation"),
                 pagesPass |-> PagesWith(mappedPages, kept[i], "pass"),
                 pagesManual |-> PagesWith(mappedPages, kept[i], "manual"),
                 pagesIncomplete |->
                   PagesWith(mappedPages, kept[i], "incomplete") ]
         IN [folded EXCEPT !.status = FinalStatus(folded)] ]

\* The entries of criteriaMap after the fold and the final status loop, in
\* insertion order (the catalog's).
Aggregated(catalog, mappedPages) ==
  [ i \in DOMAIN catalog |->
      LET folded ==
            [ rgaaId |-> catalog[i], status |-> "pass",
              pagesViolating |-> PagesWith(mappedPages, catalog[i], "violation"),
              pagesPass |-> PagesWith(mappedPages, catalog[i], "pass"),
              pagesManual |-> PagesWith(mappedPages, catalog[i], "manual"),
              pagesIncomplete |->
                PagesWith(mappedPages, catalog[i], "incomplete") ]
      IN [folded EXCEPT !.status = FinalStatus(folded)] ]

\* Array.prototype.sort with (a, b) => b.pagesViolating.length -
\* a.pagesViolating.length: stable, so an entry goes behind the entries that
\* have at least as many pages.
SortInsert(sorted, c) ==
  LET ahead == Cardinality({ i \in DOMAIN sorted :
                               Len(sorted[i].pagesViolating)
                                 >= Len(c.pagesViolating) })
  IN SubSeq(sorted, 1, ahead) \o <<c>> \o SubSeq(sorted, ahead + 1, Len(sorted))

RECURSIVE SortByPagesViolating(_)
SortByPagesViolating(seq) ==
  IF seq = <<>> THEN <<>>
  ELSE SortInsert(SortByPagesViolating(SubSeq(seq, 1, Len(seq) - 1)),
                  seq[Len(seq)])

TopIssuesLimit == 5

\* Mutant: the entries are cut to the limit before they are sorted.
TopIssuesSliceFirst(criteria) ==
  LET violated == SelectSeq(criteria, LAMBDA c : Len(c.pagesViolating) > 0)
      cut == SubSeq(violated, 1, Min(TopIssuesLimit, Len(violated)))
      sorted == SortByPagesViolating(cut)
  IN [ i \in DOMAIN sorted |->
         [rgaaId |-> sorted[i].rgaaId,
          pagesAffected |-> Len(sorted[i].pagesViolating)] ]

TopIssues(criteria) ==
  LET violated == SelectSeq(criteria, LAMBDA c : Len(c.pagesViolating) > 0)
      sorted == SortByPagesViolating(violated)
      top == SubSeq(sorted, 1, Min(TopIssuesLimit, Len(sorted)))
  IN [ i \in DOMAIN top |->
         [rgaaId |-> top[i].rgaaId,
          pagesAffected |-> Len(top[i].pagesViolating)] ]

CountStatus(criteria, status) ==
  Cardinality({ i \in DOMAIN criteria : criteria[i].status = status })

\* aggregateResults: the summary it returns and the pages it was given as
\* they are after the call.
aggregateResults(catalog, mappedPages, allCollectedData) ==
  LET criteria == Aggregated(catalog, mappedPages)
  IN [ summary |->
         [ totalCriteria |-> Len(criteria),
           automated |-> Len(criteria) - CountStatus(criteria, "manual"),
           violations |-> CountStatus(criteria, "violation"),
           passes |-> CountStatus(criteria, "pass"),
           manual |-> CountStatus(criteria, "manual"),
           incomplete |-> CountStatus(criteria, "incomplete"),
           topIssues |-> TopIssues(criteria),
           criteria |-> criteria ],
       mappedPages |->
         IF allCollectedData.supplied
         THEN detectDuplicateLabels(mappedPages, allCollectedData.entries)
         ELSE mappedPages ]


\* Inputs of aggregateResults. Pages have distinct URLs (the report routes
\* take them from the URL-keyed results of a session): page i has URL i.
MaxFoldPages == 2
MaxLinks == 2

\* The classifications of one page: for every id a status among the options,
\* "absent" leaving the id out.
PageCriteria(ids, options) ==
  { SelectSeq([ i \in DOMAIN ids |->
                  [rgaaId |-> ids[i], status |-> f[i], elements |-> <<>>] ],
              LAMBDA c : c.status /= "absent") :
      f \in [DOMAIN ids -> options] }

PageLists(n, criteriaSets) ==
  { [ i \in 1..n |-> [url |-> i, criteria |-> cs[i]] ] :
      cs \in [1..n -> criteriaSets] }

NotSupplied == [supplied |-> FALSE, entries |-> <<>>]

\* Folding: n pages over a catalog of two criteria, any status or none for
\* each criterion and for an id the catalog does not have.
FoldInputs(n) ==
  { [catalog |-> ShortCatalog, mappedPages |-> ps,
     allCollectedData |-> NotSupplied] :
      ps \in PageLists(n, PageCriteria(ShortCatalog \o <<UnknownId>>,
                                       Statuses \cup {"absent"})) }

\* Ranking: n pages over the whole catalog, each criterion violated or
\* passed.
RankingPages == 2
RankingInputs(n) ==
  { [catalog |-> CatalogIds, mappedPages |-> ps,
     allCollectedData |-> NotSupplied] :
      ps \in PageLists(n, PageCriteria(CatalogIds, {"violation", "pass"})) }

\* Evidence: up to two pages with their collected links, the first page with
\* up to MaxLinks links and possibly an element already attached to 6.1.
LinkLists(max) == UNION { [1..n -> Links] : n \in 0..max }
CollectedLinks(max) ==
  {NullData} \cup { [kind |-> "data", links |-> ls] : ls \in LinkLists(max) }
LinkCriterion(status, elements) ==
  [rgaaId |-> "6.1", status |-> status, elements |-> elements]
AttachedLink ==
  [selector |-> LinkSelector("/a"), flags |-> {"GENERIC_LABEL"}]
FirstPages ==
  { [url |-> 1, criteria |-> c] :
      c \in { <<>>, << LinkCriterion("pass", <<>>) >>,
              << LinkCriterion("pass", <<AttachedLink>>) >>,
              << LinkCriterion("manual", <<AttachedLink>>) >> } }
SecondPages ==
  { [url |-> 2, criteria |-> c] :
      c \in { <<>>, << LinkCriterion("pass", <<>>) >> } }
EvidencePages ==
  {<<>>} \cup { <<p1>> : p1 \in FirstPages }
         \cup { <<p1, p2>> : p1 \in FirstPages, p2 \in SecondPages }

\* The evidence handed over with the pages: one entry per page, in the
\* pages' order; the second page has at most one link.
Evidence(mappedPages, data) ==
  [ supplied |-> TRUE,
    entries |-> [ i \in DOMAIN mappedPages |->
                    [url |-> mappedPages[i].url, collectedData |-> data[i]] ] ]
EvidenceInputs(mappedPages) ==
  { [catalog |-> ShortCatalog, mappedPages |-> mappedPages,
     allCollectedData |-> Evidence(mappedPages, <<d1, d2>>)] :
      d1 \in CollectedLinks(MaxLinks), d2 \in CollectedLinks(1) }

\* No call of aggregateResults.
NoAggregate ==
  [ done |-> FALSE,
    input |-> [catalog |-> <<>>, mappedPages |-> <<>>,
               allCollectedData |-> NotSupplied],
    output |-> [summary |-> <<>>, mappedPages |-> <<>>] ]

\* ------------------------------------------------------------------------
\* loadMapping
\* ------------------------------------------------------------------------
MaxLoadEvents == 5

\* The mapping file: missing, or its text.
NoFileThere == [exists |-> FALSE, raw |-> ""]
RawTexts ==
  { "{", "null", "{}", "{version:'4.1'}", "{version:'4.1',criteria:[]}",
    "{version:'',criteria:['1.1']}", "{version:'4.1',criteria:['1.1']}",
    "{version:'4.2',criteria:['1.1','6.1']}" }
MappingFiles == {NoFileThere} \cup { [exists |-> TRUE, raw |-> r] : r \in RawTexts }

\* JSON.parse: an exception, null, or an object whose missing version reads
\* as falsy and whose missing criteria is not an array.
ParseError == [ok |-> FALSE, value |-> [kind |-> "null"]]
Parsed(version, isArray, items) ==
  [ ok |-> TRUE,
    value |-> [ kind |-> "object", version |-> version,
                criteria |-> [isArray |-> isArray, items |-> items] ] ]
JSONParse(raw) ==
  CASE raw = "null" -> [ok |-> TRUE, value |-> [kind |-> "null"]]
    [] raw = "{}" -> Parsed("", FALSE, <<>>)
    [] raw = "{version:'4.1'}" -> Parsed("4.1", FALSE, <<>>)
    [] raw = "{version:'4.1',criteria:[]}" -> Parsed("4.1", TRUE, <<>>)
    [] raw = "{version:'',criteria:['1.1']}" -> Parsed("", TRUE, <<"1.1">>)
    [] raw = "{version:'4.1',criteria:['1.1']}" -> Parsed("4.1", TRUE, <<"1.1">>)
    [] raw = "{version:'4.2',criteria:['1.1','6.1']}" ->
         Parsed("4.2", TRUE, <<"1.1", "6.1">>)
    [] OTHER -> ParseError

NullMapping == [kind |-> "null"]

\* What a call of loadMapping does: whether it read the file, what it threw
\* or returned, and the cache it leaves.
Returned(value, read) ==
  [read |-> read, threw |-> "", value |-> value, cachedMapping |-> value]
Thrown(error) ==
  [ read |-> TRUE, threw |-> error, value |-> NullMapping,
    cachedMapping |-> NullMapping ]

\* Mutant: the parsed value is cached before it is validated.
loadMappingCacheUnchecked(cachedMapping, file) ==
  IF cachedMapping.kind /= "null" THEN Returned(cachedMapping, FALSE)
  ELSE IF ~file.exists THEN Thrown("Fichier de mapping introuvable")
  ELSE LET parsed == JSONParse(file.raw)
       IN IF ~parsed.ok THEN Thrown("Fichier de mapping invalide")
          ELSE IF parsed.value.kind = "null" THEN Thrown("TypeError")
          ELSE IF ~Truthy(parsed.value.version)
          THEN [Thrown("version absente") EXCEPT
                  !.cachedMapping = parsed.value]
          ELSE IF \/ ~parsed.value.criteria.isArray
                  \/ Len(parsed.value.criteria.items) = 0
          THEN [Thrown("criteria absent ou vide") EXCEPT
                  !.cachedMapping = parsed.value]
          ELSE Returned(parsed.value, TRUE)

loadMapping(cachedMapping, file) ==
  IF cachedMapping.kind /= "null" THEN Returned(cachedMapping, FALSE)
  ELSE IF ~file.exists THEN Thrown("Fichier de mapping introuvable")
  ELSE LET parsed == JSONParse(file.raw)
       IN IF ~parsed.ok THEN Thrown("Fichier de mapping invalide")
          ELSE IF parsed.value.kind = "null" THEN Thrown("TypeError")
          ELSE IF ~Truthy(parsed.value.version) THEN Thrown("version absente")
          ELSE IF \/ ~parsed.value.criteria.isArray
                  \/ Len(parsed.value.criteria.items) = 0
          THEN Thrown("criteria absent ou vide")
          ELSE Returned(parsed.value, TRUE)

\* The module has been loaded and loadMapping has not been called.
ModuleLoaded(file) ==
  [file |-> file, cachedMapping |-> NullMapping, history |-> <<>>]
NoLoad == ModuleLoaded([exists |-> TRUE, raw |-> "{version:'4.1',criteria:['1.1']}"])

\* ------------------------------------------------------------------------
\* POST /api/audit/start
\* ------------------------------------------------------------------------
MaxPosts == 2
MaxAuditEvents == 2
MaxUrlsPerAudit == 50

\* req.body.urls: not an array (absent, a string, an object), or an array of
\* some length.
UrlsFields ==
  { [isArray |-> FALSE, length |-> 0] } \cup
  { [isArray |-> TRUE, length |-> n] : n \in 0..(MaxUrlsPerAudit + 1) }

\* The server has started: no audit runs, no session id has been issued.
NoRequest ==
  [ runningAudits |-> {}, launched |-> {}, issued |-> 0, sent |-> <<>>,
    history |-> <<>> ]

BadRequest(a) == [api |-> a, status |-> 400, sessionId |-> 0]

\* Mutant: the limit is tested with >= and the session is registered before
\* the length is tested.
PostAuditStartRegistersFirst(a, urlsField) ==
  IF ~urlsField.isArray \/ urlsField.length = 0 THEN BadRequest(a)
  ELSE IF urlsField.length >= MaxUrlsPerAudit
  THEN BadRequest([a EXCEPT !.issued = @ + 1,
                            !.runningAudits = @ \cup {a.issued + 1}])
  ELSE [ api |-> [a EXCEPT !.issued = @ + 1,
                           !.runningAudits = @ \cup {a.issued + 1},
                           !.launched = @ \cup {a.issued + 1}],
         status |-> 202, sessionId |-> a.issued + 1 ]

\* The handler: 400 without side effect, or a new session id (randomUUID)
\* registered in runningAudits, the audit launched and 202 answered.
PostAuditStart(a, urlsField) ==
  IF ~urlsField.isArray \/ urlsField.length = 0 THEN BadRequest(a)
  ELSE IF urlsField.length > MaxUrlsPerAudit THEN BadRequest(a)
  ELSE [ api |-> [a EXCEPT !.issued = @ + 1,
                           !.runningAudits = @ \cup {a.issued + 1},
                           !.launched = @ \cup {a.issued + 1}],
         status |-> 202, sessionId |-> a.issued + 1 ]

\* ------------------------------------------------------------------------
\* auditPage, step by step
\* ------------------------------------------------------------------------
\* What an awaited call does: it fulfils, or it rejects with an Error that
\* has a message (possibly empty) or with a value that is not an Error.
Fulfilled(value) == [rejected |-> FALSE, value |-> value]
Response == [kind |-> "response"]
Rejections ==
  { [rejected |-> TRUE, value |-> [isError |-> e, text |-> t]] :
      e \in BOOLEAN, t \in {"", "net::ERR_CONNECTION_REFUSED",
                            "Timeout 30000ms exceeded"} }
GotoOutcomes == {Fulfilled(Response)} \cup Rejections
AnalyzeOutcomes == { Fulfilled(r) : r \in EngineResults \cup ErrorResults }
CollectOutcomes ==
  { Fulfilled(d) : d \in CollectedLinks(1) \ {NullData} } \cup Rejections

NullError == "null"

\* err instanceof Error ? err.message : String(err): the message of an
\* Error, the text of another value.
ErrorMessage(err) == err.text

PageFailure(url, err) ==
  [ threw |-> FALSE, url |-> url, axeResults |-> NullResult,
    collectedData |-> NullData, error |-> ErrorMessage(err) ]

\* Mutant: a failure of the collection is not caught with the others and
\* leaves the results of the engine in place.
auditPagePartial(url, goto, analyze, collect) ==
  IF goto.rejected THEN PageFailure(url, goto.value)
  ELSE IF collect.rejected
  THEN [ threw |-> FALSE, url |-> url, axeResults |-> analyze.value,
         collectedData |-> NullData, error |-> ErrorMessage(collect.value) ]
  ELSE [ threw |-> FALSE, url |-> url, axeResults |-> analyze.value,
         collectedData |-> collect.value, error |-> NullError ]

\* auditPage: goto, then the engine and the collection together; any
\* rejection is caught and becomes the error of the result.
auditPage(url, goto, analyze, collect) ==
  IF goto.rejected THEN PageFailure(url, goto.value)
  ELSE IF analyze.rejected THEN PageFailure(url, analyze.value)
  ELSE IF collect.rejected THEN PageFailure(url, collect.value)
  ELSE [ threw |-> FALSE, url |-> url, axeResults |-> analyze.value,
         collectedData |-> collect.value, error |-> NullError ]

\* No call of auditPage.
NoAudit ==
  [ done |-> FALSE,
    input |-> [ url |-> 0, goto |-> Fulfilled(Response),
                analyze |-> Fulfilled(NullResult),
                collect |-> Fulfilled(NullData) ],
    output |-> [ threw |-> FALSE, url |-> 0, axeResults |-> NullResult,
                 collectedData |-> NullData, error |-> NullError ] ]

\* ------------------------------------------------------------------------
\* SSEManager (packages/server/sse/progress.ts)
\* ------------------------------------------------------------------------
MaxResponses == 3   \* responses handed to addClient in one run
MaxWrites == 1      \* payloads written to one response

SessionIds == {"s1", "s2"}
Responses == 1..MaxResponses
NoClient == 0       \* clients.get(id) is undefined
NoListener == "none"

\* new SSEManager(): no client.  open: the responses whose connection is
\* open; listener: the id captured by the 'close' listener of a response;
\* latest: the response most recently added under an id and not removed by
\* a direct removeClient call; written: payloads written to a response.
NoSSE ==
  [ clients |-> [id \in SessionIds |-> NoClient],
    open |-> {},
    listener |-> [r \in Responses |-> NoListener],
    latest |-> [id \in SessionIds |-> NoClient],
    written |-> [r \in Responses |-> 0] ]

\* removeClient(id): this.clients.delete(id)
removeClient(s, id) == [s EXCEPT !.clients[id] = NoClient]

\* addClient(id, res): headers, this.clients.set(id, { id, res }), and a
\* 'close' listener on res that calls removeClient(id).
addClient(s, id, res) ==
  [ s EXCEPT !.clients[id] = res,
             !.open = @ \cup {res},
             !.listener[res] = id,
             !.latest[id] = res ]

\* res emits 'close': its listeners run.
closeResponse(s, res) ==
  LET closed == [s EXCEPT !.open = @ \ {res}]
  IN IF s.listener[res] = NoListener
     THEN closed
     ELSE removeClient(closed, s.listener[res])

\* send(id, eventType, data): written to the client of id, if there is one
send(s, id) ==
  IF s.clients[id] = NoClient
  THEN s
  ELSE [s EXCEPT !.written[s.clients[id]] = @ + 1]

\* broadcast(eventType, data): written to every client
broadcast(s) ==
  [ s EXCEPT !.written =
      [ r \in Responses |->
          IF \E id \in SessionIds : s.clients[id] = r
          THEN s.written[r] + 1 ELSE s.written[r] ] ]

hasClient(s, id) == s.clients[id] /= NoClient
size(s) == Cardinality({ id \in SessionIds : hasClient(s, id) })

\* ------------------------------------------------------------------------
\* The AuditProgress view (packages/web/src/pages/AuditProgress.tsx)
\* ------------------------------------------------------------------------
MaxViewEvents == 4  \* SSE events received by one view
MaxViewUrls == 2    \* distinct URLs in the events

ViewUrls == 1..MaxViewUrls

\* The state of a mounted view before any event.
NoView ==
  [ pages |-> <<>>, completed |-> 0, total |-> 0, auditDone |-> FALSE,
    connectionError |-> FALSE, closed |-> FALSE, received |-> 0 ]

Listed(pages, url) == \E i \in 1..Len(pages) : pages[i].url = url

\* prev.map((p) => p.url === url ? { ...p, status } : p)
SetStatus(pages, url, status) ==
  [ i \in 1..Len(pages) |->
      IF pages[i].url = url THEN [pages[i] EXCEPT !.status = status]
      ELSE pages[i] ]

\* listener of 'page_start'
onPageStart(v, url) ==
  IF Listed(v.pages, url)
  THEN [v EXCEPT !.pages = SetStatus(@, url, "running")]
  ELSE [v EXCEPT !.pages = Append(@, [url |-> url, status |-> "running"]),
                 !.total = Len(v.pages) + 1]

\* listener of 'page_complete'
onPageComplete(v, url) ==
  [v EXCEPT !.pages = SetStatus(@, url, "done"), !.completed = @ + 1]

\* listener of 'page_error'
onPageError(v, url) ==
  [v EXCEPT !.pages = SetStatus(@, url, "error"), !.completed = @ + 1]

\* listener of 'audit_complete': setAuditDone(true); es.close()
onAuditComplete(v) == [v EXCEPT !.auditDone = TRUE, !.closed = TRUE]

\* es.onerror: setConnectionError(true); es.close()
onError(v) == [v EXCEPT !.connectionError = TRUE, !.closed = TRUE]

\* auditPages has been called and has not run yet.
InitAuditPages ==
  /\ urls \in UrlLists(MaxUrls)
  /\ maxConcurrent \in MaxConcurrentOpts
  /\ state = NoData
  /\ urlQueue = <<>>
  /\ eventBuffer = <<>>
  /\ pushed = <<>>
  /\ notifyResolve = FALSE
  /\ genPc = "idle"
  /\ allDone = FALSE
  /\ allWorkersPromise = "pending"
  /\ wpc = [w \in Workers |-> "none"]
  /\ wurl = [w \in Workers |-> 0]
  /\ wdata = [w \in Workers |-> NoData]
  /\ fd = [w \in Workers |-> "none"]
  /\ tmpFile = NoFile
  /\ finalFile = NoFile
  /\ stream = <<>>
  /\ taken = <<>>
  /\ saved = {}
  /\ saveFailed = FALSE
  /\ outcomes = <<>>

Init ==
  /\ InitAuditPages
  /\ srv = NoServer
  /\ mp = NoMapping
  /\ ag = NoAggregate /\ lm = NoLoad /\ api = NoRequest /\ ap = NoAudit /\ sse = NoSSE /\ view = NoView

\* ------------------------------------------------------------------------
\* Event buffer
\* ------------------------------------------------------------------------
PageStart(u) == [type |-> "page_start", url |-> u]
PageComplete(u, r) == [type |-> "page_complete", url |-> u, result |-> r]
PageError(u, e) == [type |-> "page_error", url |-> u, error |-> e]
AuditComplete(s) == [type |-> "audit_complete", summary |-> s]

\* Mutant: events are put at the front of the buffer (unshift, not push).
pushEventsFront(evs) ==
  /\ eventBuffer' = evs \o eventBuffer
  /\ pushed' = pushed \o evs
  /\ IF evs /= <<>> /\ notifyResolve
     THEN notifyResolve' = FALSE /\ genPc' = "loop"
     ELSE UNCHANGED << notifyResolve, genPc >>

\* pushEvent, for a sequence of events pushed in one synchronous stretch:
\* the first push resolves a pending waitForEvent promise.
pushEvents(evs) ==
  /\ eventBuffer' = eventBuffer \o evs
  /\ pushed' = pushed \o evs
  /\ IF evs /= <<>> /\ notifyResolve
     THEN notifyResolve' = FALSE /\ genPc' = "loop"
     ELSE UNCHANGED << notifyResolve, genPc >>

pushEvent(ev) == pushEvents(<<ev>>)

\* Mutant: the queue is read from its end (pop instead of shift).
ShiftFromEnd(q) ==
  [url |-> q[Len(q)], rest |-> SubSeq(q, 1, Len(q) - 1)]

\* urlQueue.shift(): the first URL and the queue without it
Shift(q) == [url |-> Head(q), rest |-> Tail(q)]

\* ------------------------------------------------------------------------
\* auditPages: launch, contexts, state, and the synchronous start of every
\* worker (each runs up to its first await: shift, page_start, newPage).
\* ------------------------------------------------------------------------
Started(w) == w <= Concurrency(maxConcurrent)

\* contexts.map((ctx) => worker(ctx)): the workers start one after the
\* other, each shifting its first URL while the queue has one.
RECURSIVE FirstTakes(_, _)
FirstTakes(q, n) ==
  IF n <= 0 \/ q = <<>>
  THEN [urls |-> <<>>, rest |-> q]
  ELSE LET s == Shift(q)
           r == FirstTakes(s.rest, n - 1)
       IN [urls |-> <<s.url>> \o r.urls, rest |-> r.rest]

Start ==
  /\ genPc = "idle"
  /\ LET c == Concurrency(maxConcurrent)
         k == Min(c, Len(urls))
         first == FirstTakes(urls, c)
     IN /\ state' = InitialState(urls)
        /\ urlQueue' = first.rest
        /\ taken' = first.urls
        /\ wpc' = [w \in Workers |->
                     IF w <= k THEN "audit"
                     ELSE IF w <= c THEN "exited" ELSE "none"]
        /\ wurl' = [w \in Workers |-> IF w <= k THEN first.urls[w] ELSE 0]
        /\ eventBuffer' = [i \in 1..k |-> PageStart(first.urls[i])]
        /\ pushed' = [i \in 1..k |-> PageStart(first.urls[i])]
        /\ genPc' = "loop"
  /\ UNCHANGED << urls, maxConcurrent, notifyResolve, allDone,
                  allWorkersPromise, wdata, fd, tmpFile, finalFile, stream,
                  saved, saveFailed,
                  outcomes >>
  /\ UNCHANGED << srv, mp, ag, lm, api, ap, sse, view >>

\* ------------------------------------------------------------------------
\* worker(ctx), lines 172-198
\* ------------------------------------------------------------------------
TerminalEvent(result) ==
  IF result.error /= "null"
  THEN PageError(result.url, result.error)
  ELSE PageComplete(result.url, result)

\* The worker's promise rejects: Promise.all rejects with it, so the
\* .then callback that sets allDone never runs.
WorkerThrows(w) ==
  /\ wpc' = [wpc EXCEPT ![w] = "failed"]
  /\ allWorkersPromise' = "rejected"

\* Mutant: auditPage does not catch a navigation error, which leaves the
\* worker as an exception.
AuditDoneUncaught(w) ==
  /\ wpc[w] = "audit"
  /\ \E outcome \in Outcomes :
       IF outcome = "navError"
       THEN /\ WorkerThrows(w)
            /\ UNCHANGED << state, outcomes, eventBuffer, pushed, notifyResolve,
                            genPc >>
       ELSE LET result == AuditPage(wurl[w], outcome)
            IN /\ state' = RecordResult(state, wurl[w], result)
               /\ outcomes' = Append(outcomes, outcome)
               /\ pushEvent(TerminalEvent(result))
               /\ wpc' = [wpc EXCEPT ![w] = "mkdir"]
               /\ UNCHANGED allWorkersPromise
  /\ UNCHANGED << urls, maxConcurrent, urlQueue, allDone, wurl, wdata, fd,
                  tmpFile, finalFile, stream, taken, saved, saveFailed >>
  /\ UNCHANGED << srv, mp, ag, lm, api, ap, sse, view >>

\* await auditPage(...) resolves; lines 181-191 up to the first await of
\* saveSessionState (mkdir).
AuditDone(w) ==
  /\ wpc[w] = "audit"
  /\ \E outcome \in Outcomes :
       LET result == AuditPage(wurl[w], outcome)
       IN /\ state' = RecordResult(state, wurl[w], result)
          /\ outcomes' = Append(outcomes, outcome)
          /\ pushEvent(TerminalEvent(result))
  /\ wpc' = [wpc EXCEPT ![w] = "mkdir"]
  /\ UNCHANGED << urls, maxConcurrent, urlQueue, allDone, allWorkersPromise,
                  wurl, wdata, fd, tmpFile, finalFile, stream, taken, saved,
                  saveFailed >>
  /\ UNCHANGED << srv, mp, ag, lm, api, ap, sse, view >>

\* JSON.stringify(state, null, 2): the text holds the fields of the session
\* state as they are when writeFile is called.
JSONStringify(st) == st

\* mkdir resolved; writeFile(tmpPath, JSON.stringify(state)) is called: the
\* argument is evaluated now, from the shared state object.
MkdirDone(w) ==
  /\ wpc[w] = "mkdir"
  /\ wdata' = [wdata EXCEPT ![w] = JSONStringify(state)]
  /\ wpc' = [wpc EXCEPT ![w] = "open"]
  /\ UNCHANGED << urls, maxConcurrent, state, urlQueue, eventBuffer, pushed,
                  notifyResolve, genPc, allDone, allWorkersPromise, wurl, fd,
                  tmpFile, finalFile, stream, taken, saved, saveFailed,
                  outcomes >>
  /\ UNCHANGED << srv, mp, ag, lm, api, ap, sse, view >>

\* writeFile, first half: open(tmpPath, 'w') creates the file or truncates
\* the one that is there.
OpenDone(w) ==
  /\ wpc[w] = "open"
  /\ tmpFile' = Truncated
  /\ fd' = [fd EXCEPT ![w] = "tmp"]
  /\ wpc' = [wpc EXCEPT ![w] = "write"]
  /\ UNCHANGED << urls, maxConcurrent, state, urlQueue, eventBuffer, pushed,
                  notifyResolve, genPc, allDone, allWorkersPromise, wurl,
                  wdata, finalFile, stream, taken, saved, saveFailed,
                  outcomes >>
  /\ UNCHANGED << srv, mp, ag, lm, api, ap, sse, view >>

\* writeFile, second half: the text is written through the descriptor, to
\* whatever file the descriptor refers to by now, and the descriptor closed.
WriteDone(w) ==
  /\ wpc[w] = "write"
  /\ tmpFile' = IF fd[w] = "tmp" THEN Written(wdata[w]) ELSE tmpFile
  /\ finalFile' = IF fd[w] = "final" THEN Written(wdata[w]) ELSE finalFile
  /\ fd' = [fd EXCEPT ![w] = "none"]
  /\ wdata' = [wdata EXCEPT ![w] = NoData]
  /\ wpc' = [wpc EXCEPT ![w] = "rename"]
  /\ UNCHANGED << urls, maxConcurrent, state, urlQueue, eventBuffer, pushed,
                  notifyResolve, genPc, allDone, allWorkersPromise, wurl,
                  stream, taken, saved, saveFailed,
                  outcomes >>
  /\ UNCHANGED << srv, mp, ag, lm, api, ap, sse, view >>

\* rename(tmpPath, filePath): the file at the temporary path replaces the
\* one at the final path; descriptors follow their file.  With no file at
\* the temporary path rename rejects (ENOENT) and the worker throws.
RenameDone(w) ==
  /\ wpc[w] = "rename"
  /\ IF tmpFile.exists
     THEN /\ finalFile' = tmpFile
          /\ tmpFile' = NoFile
          /\ fd' = [v \in Workers |->
                      IF fd[v] = "tmp" THEN "final"
                      ELSE IF fd[v] = "final" THEN "orphan" ELSE fd[v]]
          /\ saved' = saved \cup {wurl[w]}
          /\ wpc' = [wpc EXCEPT ![w] = "close"]
          /\ UNCHANGED allWorkersPromise
          /\ UNCHANGED saveFailed
     ELSE /\ WorkerThrows(w)
          /\ saveFailed' = TRUE
          /\ UNCHANGED << finalFile, tmpFile, fd, saved >>
  /\ UNCHANGED << urls, maxConcurrent, state, urlQueue, eventBuffer, pushed,
                  notifyResolve, genPc, allDone, wurl, wdata, stream, taken,
                  outcomes >>
  /\ UNCHANGED << srv, mp, ag, lm, api, ap, sse, view >>

\* An I/O operation of saveSessionState rejects (disk full, permissions):
\* the exception leaves saveSessionState and the worker.
SaveFault(w) ==
  /\ wpc[w] \in {"mkdir", "open", "write", "rename"}
  /\ saveFailed' = TRUE
  /\ fd' = [fd EXCEPT ![w] = "none"]
  /\ wdata' = [wdata EXCEPT ![w] = NoData]
  /\ WorkerThrows(w)
  /\ UNCHANGED << urls, maxConcurrent, state, urlQueue, eventBuffer, pushed,
                  notifyResolve, genPc, allDone, wurl, tmpFile, finalFile,
                  stream, taken, saved, outcomes >>
  /\ UNCHANGED << srv, mp, ag, lm, api, ap, sse, view >>

\* page.close() resolved; back at the loop head: exit on an empty queue,
\* else shift the next URL and push its page_start.
WorkerLoop(w) ==
  /\ wpc[w] = "close"
  /\ IF urlQueue = <<>>
     THEN /\ wpc' = [wpc EXCEPT ![w] = "exited"]
          /\ wurl' = [wurl EXCEPT ![w] = 0]
          /\ UNCHANGED << urlQueue, taken, eventBuffer, pushed, notifyResolve, genPc >>
     ELSE /\ urlQueue' = Shift(urlQueue).rest
          /\ taken' = Append(taken, Shift(urlQueue).url)
          /\ wurl' = [wurl EXCEPT ![w] = Shift(urlQueue).url]
          /\ pushEvent(PageStart(Shift(urlQueue).url))
          /\ wpc' = [wpc EXCEPT ![w] = "audit"]
  /\ UNCHANGED << urls, maxConcurrent, state, allDone, allWorkersPromise,
                  wdata, fd, tmpFile, finalFile, stream, saved, saveFailed,
                  outcomes >>
  /\ UNCHANGED << srv, mp, ag, lm, api, ap, sse, view >>

\* ------------------------------------------------------------------------
\* Promise.all(...).then(...), lines 202-214
\* ------------------------------------------------------------------------
Summary(st) ==
  [ totalPages |-> Len(urls),
    completedPages |-> Len(st.completedPages),
    failedPages |->
      Cardinality({ u \in DOMAIN st.results : st.results[u].error /= "null" }) ]

\* Mutant: the callback runs as soon as one worker has exited
\* (Promise.any in place of Promise.all).
AllWorkersDoneAny ==
  /\ genPc \in {"loop", "waiting", "returned"}
  /\ allWorkersPromise = "pending"
  /\ \E w \in Workers : Started(w) /\ wpc[w] = "exited"
  /\ allDone' = TRUE
  /\ allWorkersPromise' = "fulfilled"
  /\ pushEvent(AuditComplete(Summary(state)))
  /\ UNCHANGED << urls, maxConcurrent, state, urlQueue, wpc, wurl, wdata, fd,
                  tmpFile, finalFile, stream, taken, saved, saveFailed,
                  outcomes >>
  /\ UNCHANGED << srv, mp, ag, lm, api, ap, sse, view >>

AllWorkersDone ==
  /\ genPc \in {"loop", "waiting", "returned"}
  /\ allWorkersPromise = "pending"
  /\ \A w \in Workers : Started(w) => wpc[w] = "exited"
  /\ allDone' = TRUE
  /\ allWorkersPromise' = "fulfilled"
  /\ pushEvent(AuditComplete(Summary(state)))
  /\ UNCHANGED << urls, maxConcurrent, state, urlQueue, wpc, wurl, wdata, fd,
                  tmpFile, finalFile, stream, taken, saved, saveFailed,
                  outcomes >>
  /\ UNCHANGED << srv, mp, ag, lm, api, ap, sse, view >>

\* ------------------------------------------------------------------------
\* The generator's yield loop, lines 217-224, driven by its consumer
\* ------------------------------------------------------------------------
\* Mutant: the loop yields the newest event (eventBuffer.pop()).
YieldPop ==
  /\ genPc = "loop"
  /\ eventBuffer /= <<>>
  /\ stream' = Append(stream, eventBuffer[Len(eventBuffer)])
  /\ eventBuffer' = SubSeq(eventBuffer, 1, Len(eventBuffer) - 1)
  /\ UNCHANGED pushed
  /\ UNCHANGED << urls, maxConcurrent, state, urlQueue, notifyResolve, genPc,
                  allDone, allWorkersPromise, wpc, wurl, wdata, fd, tmpFile,
                  finalFile, taken, saved, saveFailed,
                  outcomes >>
  /\ UNCHANGED << srv, mp, ag, lm, api, ap, sse, view >>

\* yield eventBuffer.shift()
Yield ==
  /\ genPc = "loop"
  /\ eventBuffer /= <<>>
  /\ stream' = Append(stream, Head(eventBuffer))
  /\ eventBuffer' = Tail(eventBuffer)
  /\ UNCHANGED pushed
  /\ UNCHANGED << urls, maxConcurrent, state, urlQueue, notifyResolve, genPc,
                  allDone, allWorkersPromise, wpc, wurl, wdata, fd, tmpFile,
                  finalFile, taken, saved, saveFailed,
                  outcomes >>
  /\ UNCHANGED << srv, mp, ag, lm, api, ap, sse, view >>

\* await waitForEvent() with an empty buffer: park until the next pushEvent
WaitForEvent ==
  /\ genPc = "loop"
  /\ eventBuffer = <<>>
  /\ ~allDone
  /\ notifyResolve' = TRUE
  /\ genPc' = "waiting"
  /\ UNCHANGED << urls, maxConcurrent, state, urlQueue, eventBuffer, pushed, allDone,
                  allWorkersPromise, wpc, wurl, wdata, fd, tmpFile, finalFile,
                  stream, taken, saved, saveFailed,
                  outcomes >>
  /\ UNCHANGED << srv, mp, ag, lm, api, ap, sse, view >>

\* the loop condition is false: await allWorkersPromise, finally, return
GenReturn ==
  /\ genPc = "loop"
  /\ eventBuffer = <<>>
  /\ allDone
  /\ genPc' = "done"
  /\ UNCHANGED << urls, maxConcurrent, state, urlQueue, eventBuffer, pushed,
                  notifyResolve, allDone, allWorkersPromise, wpc, wurl, wdata,
                  fd, tmpFile, finalFile, stream, taken, saved, saveFailed,
                  outcomes >>
  /\ UNCHANGED << srv, mp, ag, lm, api, ap, sse, view >>

\* ------------------------------------------------------------------------
\* The process is killed (check-step5-crash.ts): memory is lost, the files
\* and what the consumer has already seen stay.
\* ------------------------------------------------------------------------
Crash ==
  /\ genPc \in {"loop", "waiting"}
  /\ genPc' = "killed"
  /\ state' = NoData
  /\ urlQueue' = <<>>
  /\ eventBuffer' = <<>>
  /\ UNCHANGED pushed
  /\ notifyResolve' = FALSE
  /\ allDone' = FALSE
  /\ allWorkersPromise' = "pending"
  /\ wpc' = [w \in Workers |-> "none"]
  /\ wurl' = [w \in Workers |-> 0]
  /\ wdata' = [w \in Workers |-> NoData]
  /\ fd' = [w \in Workers |-> "none"]
  /\ taken' = <<>>
  /\ outcomes' = <<>>
  /\ UNCHANGED << urls, maxConcurrent, tmpFile, finalFile, stream, saved,
                  saveFailed >>
  /\ UNCHANGED << srv, mp, ag, lm, api, ap, sse, view >>

\* saveSessionState run to completion with no other step in between (no
\* other save overlaps it): mkdir, writeFile of the current state to the
\* temporary path, rename onto the final path.
SaveSessionState(w) ==
  /\ wpc[w] = "mkdir"
  /\ finalFile' = Written(JSONStringify(state))
  /\ tmpFile' = NoFile
  /\ saved' = saved \cup {wurl[w]}
  /\ wpc' = [wpc EXCEPT ![w] = "close"]
  /\ UNCHANGED << urls, maxConcurrent, state, urlQueue, eventBuffer, pushed,
                  notifyResolve, genPc, allDone, allWorkersPromise, wurl,
                  wdata, fd, stream, taken, saveFailed,
                  outcomes >>
  /\ UNCHANGED << srv, mp, ag, lm, api, ap, sse, view >>

\* Pool level: every save runs to completion in one step (or fails).  The
\* file-system steps of a save touch no variable of the pool, so the pool
\* sees of a save only that it takes time and returns or throws.
PoolStep ==
  \/ Start
  \/ \E w \in Workers : AuditDone(w)
  \/ \E w \in Workers : SaveSessionState(w)
  \/ \E w \in Workers : SaveFault(w)
  \/ \E w \in Workers : WorkerLoop(w)
  \/ AllWorkersDone
  \/ Yield
  \/ WaitForEvent
  \/ GenReturn

NextPool == PoolStep \/ Crash

SpecPool == Init /\ [][NextPool]_vars

\* File level: the saves of concurrent workers interleave operation by
\* operation.
InitFiles == Init /\ Len(urls) <= MaxSaveUrls

NextFiles ==
  \/ Start
  \/ \E w \in Workers : AuditDone(w)
  \/ \E w \in Workers : MkdirDone(w)
  \/ \E w \in Workers : OpenDone(w)
  \/ \E w \in Workers : WriteDone(w)
  \/ \E w \in Workers : RenameDone(w)
  \/ \E w \in Workers : SaveFault(w)
  \/ \E w \in Workers : WorkerLoop(w)
  \/ AllWorkersDone
  \/ Yield
  \/ WaitForEvent
  \/ GenReturn
  \/ Crash

SpecFiles == InitFiles /\ [][NextFiles]_vars

\* A run that nothing outside the program disturbs: no I/O operation fails
\* for an outside reason, the process is not killed.  Every callback that
\* is ready runs in the end (the event loop), and the consumer keeps
\* pulling: the steps of the yield loop stand for its next() calls.
NextLive ==
  \/ Start
  \/ \E w \in Workers : AuditDone(w)
  \/ \E w \in Workers : MkdirDone(w)
  \/ \E w \in Workers : OpenDone(w)
  \/ \E w \in Workers : WriteDone(w)
  \/ \E w \in Workers : RenameDone(w)
  \/ \E w \in Workers : WorkerLoop(w)
  \/ AllWorkersDone
  \/ Yield
  \/ WaitForEvent
  \/ GenReturn

Fairness ==
  /\ WF_vars(Start)
  /\ \A w \in Workers :
       /\ WF_vars(AuditDone(w))
       /\ WF_vars(MkdirDone(w))
       /\ WF_vars(OpenDone(w))
       /\ WF_vars(WriteDone(w))
       /\ WF_vars(RenameDone(w))
       /\ WF_vars(WorkerLoop(w))
  /\ WF_vars(AllWorkersDone)
  /\ WF_vars(Yield)
  /\ WF_vars(WaitForEvent)
  /\ WF_vars(GenReturn)

SpecLive == InitFiles /\ [][NextLive]_vars /\ Fairness

\* ------------------------------------------------------------------------
\* The audit routes of the server (audit.routes.ts) and the SSE manager.
\* srv.registered: runningAudits has the session; srv.cancelled: its control
\* flag; srv.connected: sseManager has a client for the session; srv.sent:
\* what has been written to that client; srv.completed: the event stored in
\* completedAudits (none or one).  sentAtCancel, inFlightAtCancel,
\* doneAtCancel, cut and cutInFlight are history.
\* ------------------------------------------------------------------------
\* POST /api/audit/start has answered 202: the session is registered and the
\* background task has called auditPages.
ServerAfterPost == [NoServer EXCEPT !.registered = TRUE]

InitServer ==
  /\ InitAuditPages
  /\ Len(urls) <= MaxServerUrls
  /\ srv = ServerAfterPost
  /\ mp = NoMapping
  /\ ag = NoAggregate /\ lm = NoLoad /\ api = NoRequest /\ ap = NoAudit /\ sse = NoSSE /\ view = NoView

\* SSEManager.send: written to the session's client, dropped without one.
SSESend(s, ev) ==
  IF s.connected THEN [s EXCEPT !.sent = Append(@, ev)] ELSE s

\* Mutant: the loop does not look at the cancelled flag.
ForAwaitNextNoBreak ==
  /\ genPc = "loop"
  /\ eventBuffer /= <<>>
  /\ stream' = Append(stream, Head(eventBuffer))
  /\ eventBuffer' = Tail(eventBuffer)
  /\ UNCHANGED pushed
  /\ srv' = [ SSESend(srv, Head(eventBuffer)) EXCEPT
               !.completed =
                 IF Head(eventBuffer).type = "audit_complete"
                 THEN << Head(eventBuffer) >> ELSE @ ]
  /\ UNCHANGED << urls, maxConcurrent, state, urlQueue, notifyResolve, genPc,
                  allDone, allWorkersPromise, wpc, wurl, wdata, fd, tmpFile,
                  finalFile, taken, saved, saveFailed, outcomes, mp, ag, lm, api, ap, sse, view >>

\* One turn of 'for await (const event of gen)': the generator yields the
\* head of the buffer; a cancelled loop breaks, which returns the generator
\* (its finally closes the contexts and the browser) and ends the task;
\* otherwise the event is sent and an audit_complete is stored.
ForAwaitNext ==
  /\ genPc = "loop"
  /\ eventBuffer /= <<>>
  /\ stream' = Append(stream, Head(eventBuffer))
  /\ eventBuffer' = Tail(eventBuffer)
  /\ UNCHANGED pushed
  /\ IF srv.cancelled
     THEN /\ genPc' = "returned"
          /\ srv' = [srv EXCEPT !.registered = FALSE]
     ELSE /\ genPc' = genPc
          /\ srv' = [ SSESend(srv, Head(eventBuffer)) EXCEPT
                       !.completed =
                         IF Head(eventBuffer).type = "audit_complete"
                         THEN << Head(eventBuffer) >> ELSE @ ]
  /\ UNCHANGED << urls, maxConcurrent, state, urlQueue, notifyResolve,
                  allDone, allWorkersPromise, wpc, wurl, wdata, fd, tmpFile,
                  finalFile, taken, saved, saveFailed, outcomes, mp, ag, lm, api, ap, sse, view >>

\* The generator is done, the loop ends: finally { runningAudits.delete }
LoopEnd ==
  /\ genPc = "done"
  /\ srv.registered
  /\ srv' = [srv EXCEPT !.registered = FALSE]
  /\ UNCHANGED << urls, maxConcurrent, state, urlQueue, eventBuffer, pushed,
                  notifyResolve, genPc, allDone, allWorkersPromise, wpc, wurl,
                  wdata, fd, tmpFile, finalFile, stream, taken, saved,
                  saveFailed, outcomes, mp, ag, lm, api, ap, sse, view >>

\* auditPages has yielded audit_complete to the for-await loop.
Emitted(events) ==
  \E i \in 1..Len(events) : events[i].type = "audit_complete"

\* Mutant: the progress route adds the client and sends nothing.
ConnectNoReplay ==
  /\ ~srv.connected
  /\ srv' = [srv EXCEPT !.connected = TRUE,
                        !.lateSubscriber = Emitted(stream)]
  /\ UNCHANGED << urls, maxConcurrent, state, urlQueue, eventBuffer, pushed,
                  notifyResolve, genPc, allDone, allWorkersPromise, wpc, wurl,
                  wdata, fd, tmpFile, finalFile, stream, taken, saved,
                  saveFailed, outcomes, mp, ag, lm, api, ap, sse, view >>

\* GET /api/audit/progress/:sessionId: the client is added, and a stored
\* audit_complete is sent to it at once.  lateSubscriber records that the
\* audit had already emitted audit_complete when the client subscribed.
Connect ==
  /\ ~srv.connected
  /\ LET added == [srv EXCEPT !.connected = TRUE,
                              !.lateSubscriber = Emitted(stream)]
     IN srv' = IF srv.completed /= <<>>
               THEN SSESend(added, srv.completed[1])
               ELSE added
  /\ UNCHANGED << urls, maxConcurrent, state, urlQueue, eventBuffer, pushed,
                  notifyResolve, genPc, allDone, allWorkersPromise, wpc, wurl,
                  wdata, fd, tmpFile, finalFile, stream, taken, saved,
                  saveFailed, outcomes, mp, ag, lm, api, ap, sse, view >>

\* DELETE /api/audit/:sessionId: the control of a registered session is
\* marked cancelled.
Cancel ==
  /\ srv.registered
  /\ ~srv.cancelled
  /\ srv' = [ srv EXCEPT
               !.cancelled = TRUE,
               !.sentAtCancel = Len(srv.sent),
               !.inFlightAtCancel = { w \in Workers : wpc[w] = "audit" },
               !.doneAtCancel = Len(state.completedPages) ]
  /\ UNCHANGED << urls, maxConcurrent, state, urlQueue, eventBuffer, pushed,
                  notifyResolve, genPc, allDone, allWorkersPromise, wpc, wurl,
                  wdata, fd, tmpFile, finalFile, stream, taken, saved,
                  saveFailed, outcomes, mp, ag, lm, api, ap, sse, view >>

\* The generator has been returned and its finally has closed the context
\* of a page under audit: the pending page operation rejects (target
\* closed), which auditPage catches like a navigation error.  cutInFlight
\* records the worker when it was in that audit at the moment of the
\* cancellation (it was under audit then and every page recorded since then
\* was cut, each worker being cut at most once).
AuditCut(w) ==
  /\ genPc = "returned"
  /\ wpc[w] = "audit"
  /\ LET result == AuditPage(wurl[w], "navError")
     IN /\ state' = RecordResult(state, wurl[w], result)
        /\ outcomes' = Append(outcomes, "navError")
        /\ pushEvent(TerminalEvent(result))
  /\ wpc' = [wpc EXCEPT ![w] = "mkdir"]
  /\ srv' = [ srv EXCEPT
               !.cut = @ \cup {w},
               !.cutInFlight =
                 IF /\ w \in srv.inFlightAtCancel
                    /\ Len(state.completedPages) - srv.doneAtCancel
                         = Cardinality(srv.cut)
                 THEN @ \cup {w} ELSE @ ]
  /\ UNCHANGED << urls, maxConcurrent, urlQueue, allDone, allWorkersPromise,
                  wurl, wdata, fd, tmpFile, finalFile, stream, taken, saved,
                  saveFailed, mp, ag, lm, api, ap, sse, view >>

\* Back at the loop head with the context closed: an empty queue ends the
\* worker; otherwise the URL is shifted, page_start pushed, and ctx.newPage()
\* rejects, outside the try: the worker throws.
WorkerLoopClosed(w) ==
  /\ genPc = "returned"
  /\ wpc[w] = "close"
  /\ IF urlQueue = <<>>
     THEN /\ wpc' = [wpc EXCEPT ![w] = "exited"]
          /\ wurl' = [wurl EXCEPT ![w] = 0]
          /\ UNCHANGED << urlQueue, taken, eventBuffer, pushed, notifyResolve, genPc,
                          allWorkersPromise >>
     ELSE /\ urlQueue' = Shift(urlQueue).rest
          /\ taken' = Append(taken, Shift(urlQueue).url)
          /\ wurl' = [wurl EXCEPT ![w] = Shift(urlQueue).url]
          /\ pushEvent(PageStart(Shift(urlQueue).url))
          /\ WorkerThrows(w)
  /\ UNCHANGED << urls, maxConcurrent, state, allDone, wdata, fd, tmpFile,
                  finalFile, stream, saved, saveFailed, outcomes, srv, mp, ag, lm, api, ap, sse, view >>

NextServer ==
  \/ Start
  \/ \E w \in Workers : AuditDone(w)
  \/ \E w \in Workers : AuditCut(w)
  \/ \E w \in Workers : SaveSessionState(w)
  \/ \E w \in Workers : SaveFault(w)
  \/ \E w \in Workers : WorkerLoop(w)
  \/ \E w \in Workers : WorkerLoopClosed(w)
  \/ AllWorkersDone
  \/ ForAwaitNext
  \/ WaitForEvent
  \/ GenReturn
  \/ LoopEnd
  \/ Connect
  \/ Cancel

SpecServer == InitServer /\ [][NextServer]_vars

\* ------------------------------------------------------------------------
\* A call of mapPageResults on any catalog entry, rule-engine result and
\* collected evidence.
\* ------------------------------------------------------------------------
InitMapper ==
  /\ InitAuditPages
  /\ urls = <<1>>
  /\ maxConcurrent = <<>>
  /\ srv = NoServer
  /\ mp \in { [NoMapping EXCEPT !.input = i] : i \in MapperInputs }
  /\ ag = NoAggregate /\ lm = NoLoad /\ api = NoRequest /\ ap = NoAudit /\ sse = NoSSE /\ view = NoView

CallMapPageResults ==
  /\ ~mp.done
  /\ mp' = [ mp EXCEPT
              !.done = TRUE,
              !.output = mapPageResults(mp.input.catalog, mp.input.axeResults,
                                        mp.input.collectedData) ]
  /\ UNCHANGED << urls, maxConcurrent, state, urlQueue, eventBuffer, pushed,
                  notifyResolve, genPc, allDone, allWorkersPromise, wpc, wurl,
                  wdata, fd, tmpFile, finalFile, stream, taken, saved,
                  saveFailed, outcomes, srv, ag, lm, api, ap, sse, view >>

NextMapper == CallMapPageResults

SpecMapper == InitMapper /\ [][NextMapper]_vars

\* ------------------------------------------------------------------------
\* A call of aggregateResults
\* ------------------------------------------------------------------------
InitAggregate ==
  /\ InitAuditPages
  /\ urls = <<1>>
  /\ maxConcurrent = <<>>
  /\ srv = NoServer
  /\ mp = NoMapping
  /\ lm = NoLoad /\ api = NoRequest /\ ap = NoAudit /\ sse = NoSSE /\ view = NoView
  /\ \/ \E n \in 0..MaxFoldPages : \E i \in FoldInputs(n) :
          ag = [NoAggregate EXCEPT !.input = i]
     \/ \E i \in RankingInputs(RankingPages) :
          ag = [NoAggregate EXCEPT !.input = i]
     \/ \E ps \in EvidencePages : \E i \in EvidenceInputs(ps) :
          ag = [NoAggregate EXCEPT !.input = i]

CallAggregateResults ==
  /\ ~ag.done
  /\ ag.input.catalog /= <<>>
  /\ ag' = [ ag EXCEPT
              !.done = TRUE,
              !.output = aggregateResults(ag.input.catalog,
                                          ag.input.mappedPages,
                                          ag.input.allCollectedData) ]
  /\ UNCHANGED << urls, maxConcurrent, state, urlQueue, eventBuffer, pushed,
                  notifyResolve, genPc, allDone, allWorkersPromise, wpc, wurl,
                  wdata, fd, tmpFile, finalFile, stream, taken, saved,
                  saveFailed, outcomes, srv, mp, lm, api, ap, sse, view >>

NextAggregate == CallAggregateResults

SpecAggregate == InitAggregate /\ [][NextAggregate]_vars

\* ------------------------------------------------------------------------
\* Calls of loadMapping
\* ------------------------------------------------------------------------
InitLoadMapping ==
  /\ InitAuditPages
  /\ urls = <<1>>
  /\ maxConcurrent = <<>>
  /\ srv = NoServer
  /\ mp = NoMapping
  /\ ag = NoAggregate
  /\ lm \in { ModuleLoaded(f) : f \in MappingFiles }
  /\ api = NoRequest /\ ap = NoAudit /\ sse = NoSSE /\ view = NoView

CallLoadMapping ==
  /\ Len(lm.history) < MaxLoadEvents
  /\ LET call == loadMapping(lm.cachedMapping, lm.file)
     IN lm' = [ lm EXCEPT !.cachedMapping = call.cachedMapping,
                          !.history =
                            Append(@, [type |-> "load", file |-> lm.file,
                                       call |-> call]) ]
  /\ UNCHANGED << urls, maxConcurrent, state, urlQueue, eventBuffer, pushed,
                  notifyResolve, genPc, allDone, allWorkersPromise, wpc, wurl,
                  wdata, fd, tmpFile, finalFile, stream, taken, saved,
                  saveFailed, outcomes, srv, mp, ag, api, ap, sse, view >>

\* _resetCache
ResetCache ==
  /\ Len(lm.history) < MaxLoadEvents
  /\ lm' = [ lm EXCEPT !.cachedMapping = NullMapping,
                       !.history = Append(@, [type |-> "reset"]) ]
  /\ UNCHANGED << urls, maxConcurrent, state, urlQueue, eventBuffer, pushed,
                  notifyResolve, genPc, allDone, allWorkersPromise, wpc, wurl,
                  wdata, fd, tmpFile, finalFile, stream, taken, saved,
                  saveFailed, outcomes, srv, mp, ag, api, ap, sse, view >>

\* The file is replaced, removed or restored between two calls.
FileChanges ==
  /\ Len(lm.history) < MaxLoadEvents
  /\ \E f \in MappingFiles \ {lm.file} :
       lm' = [ lm EXCEPT !.file = f,
                         !.history = Append(@, [type |-> "write"]) ]
  /\ UNCHANGED << urls, maxConcurrent, state, urlQueue, eventBuffer, pushed,
                  notifyResolve, genPc, allDone, allWorkersPromise, wpc, wurl,
                  wdata, fd, tmpFile, finalFile, stream, taken, saved,
                  saveFailed, outcomes, srv, mp, ag, api, ap, sse, view >>

NextLoadMapping == CallLoadMapping \/ ResetCache \/ FileChanges

SpecLoadMapping == InitLoadMapping /\ [][NextLoadMapping]_vars

\* ------------------------------------------------------------------------
\* Requests to POST /api/audit/start and the audits they launch
\* ------------------------------------------------------------------------
InitStart ==
  /\ InitAuditPages
  /\ urls = <<1>>
  /\ maxConcurrent = <<>>
  /\ srv = NoServer
  /\ mp = NoMapping
  /\ ag = NoAggregate
  /\ lm = NoLoad
  /\ api = NoRequest /\ ap = NoAudit /\ sse = NoSSE /\ view = NoView

PostStart ==
  /\ Len(api.history) < MaxPosts
  /\ \E urlsField \in UrlsFields :
       LET answer == PostAuditStart(api, urlsField)
       IN api' = [ answer.api EXCEPT !.history =
                     Append(@, [ urls |-> urlsField,
                                 status |-> answer.status,
                                 sessionId |-> answer.sessionId,
                                 runningBefore |-> api.runningAudits,
                                 runningAfter |-> answer.api.runningAudits,
                                 launchedBefore |-> api.launched,
                                 launchedAfter |-> answer.api.launched,
                                 sentBefore |-> Len(api.sent) ]) ]
  /\ UNCHANGED << urls, maxConcurrent, state, urlQueue, eventBuffer, pushed,
                  notifyResolve, genPc, allDone, allWorkersPromise, wpc, wurl,
                  wdata, fd, tmpFile, finalFile, stream, taken, saved,
                  saveFailed, outcomes, srv, mp, ag, lm, ap, sse, view >>

\* The loop of a launched audit passes an event to sseManager.send.
AuditSends ==
  /\ Len(api.sent) < MaxAuditEvents
  /\ \E sessionId \in api.runningAudits \cap api.launched :
       api' = [api EXCEPT !.sent = Append(@, sessionId)]
  /\ UNCHANGED << urls, maxConcurrent, state, urlQueue, eventBuffer, pushed,
                  notifyResolve, genPc, allDone, allWorkersPromise, wpc, wurl,
                  wdata, fd, tmpFile, finalFile, stream, taken, saved,
                  saveFailed, outcomes, srv, mp, ag, lm, ap, sse, view >>

\* The loop of a launched audit ends: finally runningAudits.delete(sessionId).
AuditEnds ==
  /\ \E sessionId \in api.runningAudits \cap api.launched :
       api' = [api EXCEPT !.runningAudits = @ \ {sessionId}]
  /\ UNCHANGED << urls, maxConcurrent, state, urlQueue, eventBuffer, pushed,
                  notifyResolve, genPc, allDone, allWorkersPromise, wpc, wurl,
                  wdata, fd, tmpFile, finalFile, stream, taken, saved,
                  saveFailed, outcomes, srv, mp, ag, lm, ap, sse, view >>

NextStart == PostStart \/ AuditSends \/ AuditEnds

SpecStart == InitStart /\ [][NextStart]_vars

\* ------------------------------------------------------------------------
\* A call of auditPage
\* ------------------------------------------------------------------------
InitAuditPage ==
  /\ InitAuditPages
  /\ urls = <<1>>
  /\ maxConcurrent = <<>>
  /\ srv = NoServer
  /\ mp = NoMapping
  /\ ag = NoAggregate
  /\ lm = NoLoad
  /\ api = NoRequest
  /\ sse = NoSSE /\ view = NoView
  /\ \E u \in UrlIds, g \in GotoOutcomes, a \in AnalyzeOutcomes,
        c \in CollectOutcomes :
       ap = [ NoAudit EXCEPT
                !.input = [url |-> u, goto |-> g, analyze |-> a, collect |-> c] ]

CallAuditPage ==
  /\ ~ap.done
  /\ ap.input.url /= 0
  /\ ap' = [ ap EXCEPT
              !.done = TRUE,
              !.output = auditPage(ap.input.url, ap.input.goto,
                                   ap.input.analyze, ap.input.collect) ]
  /\ UNCHANGED << urls, maxConcurrent, state, urlQueue, eventBuffer, pushed,
                  notifyResolve, genPc, allDone, allWorkersPromise, wpc, wurl,
                  wdata, fd, tmpFile, finalFile, stream, taken, saved,
                  saveFailed, outcomes, srv, mp, ag, lm, api, sse, view >>

NextAuditPage == CallAuditPage

SpecAuditPage == InitAuditPage /\ [][NextAuditPage]_vars

\* ------------------------------------------------------------------------
\* SSEManager: clients come, go and are written to
\* ------------------------------------------------------------------------
InitSSE ==
  /\ InitAuditPages
  /\ urls = <<1>>
  /\ maxConcurrent = <<>>
  /\ srv = NoServer
  /\ mp = NoMapping
  /\ ag = NoAggregate
  /\ lm = NoLoad
  /\ api = NoRequest
  /\ ap = NoAudit
  /\ sse = NoSSE
  /\ view = NoView

\* GET /api/audit/progress/:sessionId with a new response
AddClient(id, res) ==
  /\ sse.listener[res] = NoListener
  /\ res \notin sse.open
  /\ sse' = addClient(sse, id, res)
  /\ UNCHANGED << urls, maxConcurrent, state, urlQueue, eventBuffer, pushed,
                  notifyResolve, genPc, allDone, allWorkersPromise, wpc, wurl,
                  wdata, fd, tmpFile, finalFile, stream, taken, saved,
                  saveFailed, outcomes, srv, mp, ag, lm, api, ap, view >>

\* The connection of a response ends (the client leaves or reconnects).
CloseResponse(res) ==
  /\ res \in sse.open
  /\ sse' = closeResponse(sse, res)
  /\ UNCHANGED << urls, maxConcurrent, state, urlQueue, eventBuffer, pushed,
                  notifyResolve, genPc, allDone, allWorkersPromise, wpc, wurl,
                  wdata, fd, tmpFile, finalFile, stream, taken, saved,
                  saveFailed, outcomes, srv, mp, ag, lm, api, ap, view >>

\* A direct call of removeClient(id)
RemoveClient(id) ==
  /\ hasClient(sse, id)
  /\ sse' = [removeClient(sse, id) EXCEPT !.latest[id] = NoClient]
  /\ UNCHANGED << urls, maxConcurrent, state, urlQueue, eventBuffer, pushed,
                  notifyResolve, genPc, allDone, allWorkersPromise, wpc, wurl,
                  wdata, fd, tmpFile, finalFile, stream, taken, saved,
                  saveFailed, outcomes, srv, mp, ag, lm, api, ap, view >>

Send(id) ==
  /\ \A r \in Responses : sse.written[r] < MaxWrites
  /\ sse' = send(sse, id)
  /\ UNCHANGED << urls, maxConcurrent, state, urlQueue, eventBuffer, pushed,
                  notifyResolve, genPc, allDone, allWorkersPromise, wpc, wurl,
                  wdata, fd, tmpFile, finalFile, stream, taken, saved,
                  saveFailed, outcomes, srv, mp, ag, lm, api, ap, view >>

Broadcast ==
  /\ \A r \in Responses : sse.written[r] < MaxWrites
  /\ size(sse) > 0
  /\ sse' = broadcast(sse)
  /\ UNCHANGED << urls, maxConcurrent, state, urlQueue, eventBuffer, pushed,
                  notifyResolve, genPc, allDone, allWorkersPromise, wpc, wurl,
                  wdata, fd, tmpFile, finalFile, stream, taken, saved,
                  saveFailed, outcomes, srv, mp, ag, lm, api, ap, view >>

NextSSE ==
  \/ \E id \in SessionIds, res \in Responses : AddClient(id, res)
  \/ \E res \in Responses : CloseResponse(res)
  \/ \E id \in SessionIds : RemoveClient(id)
  \/ \E id \in SessionIds : Send(id)
  \/ Broadcast

SpecSSE == InitSSE /\ [][NextSSE]_vars

\* ------------------------------------------------------------------------
\* AuditProgress: the view receives SSE events
\* ------------------------------------------------------------------------
InitView == InitSSE

Receiving == ~view.closed /\ view.received < MaxViewEvents

Received(v) == [v EXCEPT !.received = @ + 1]

ReceivePageStart(url) ==
  /\ Receiving
  /\ view' = Received(onPageStart(view, url))
  /\ UNCHANGED << urls, maxConcurrent, state, urlQueue, eventBuffer, pushed,
                  notifyResolve, genPc, allDone, allWorkersPromise, wpc, wurl,
                  wdata, fd, tmpFile, finalFile, stream, taken, saved,
                  saveFailed, outcomes, srv, mp, ag, lm, api, ap, sse >>

ReceivePageComplete(url) ==
  /\ Receiving
  /\ view' = Received(onPageComplete(view, url))
  /\ UNCHANGED << urls, maxConcurrent, state, urlQueue, eventBuffer, pushed,
                  notifyResolve, genPc, allDone, allWorkersPromise, wpc, wurl,
                  wdata, fd, tmpFile, finalFile, stream, taken, saved,
                  saveFailed, outcomes, srv, mp, ag, lm, api, ap, sse >>

ReceivePageError(url) ==
  /\ Receiving
  /\ view' = Received(onPageError(view, url))
  /\ UNCHANGED << urls, maxConcurrent, state, urlQueue, eventBuffer, pushed,
                  notifyResolve, genPc, allDone, allWorkersPromise, wpc, wurl,
                  wdata, fd, tmpFile, finalFile, stream, taken, saved,
                  saveFailed, outcomes, srv, mp, ag, lm, api, ap, sse >>

ReceiveAuditComplete ==
  /\ Receiving
  /\ view' = Received(onAuditComplete(view))
  /\ UNCHANGED << urls, maxConcurrent, state, urlQueue, eventBuffer, pushed,
                  notifyResolve, genPc, allDone, allWorkersPromise, wpc, wurl,
                  wdata, fd, tmpFile, finalFile, stream, taken, saved,
                  saveFailed, outcomes, srv, mp, ag, lm, api, ap, sse >>

ConnectionError ==
  /\ ~view.closed
  /\ view' = onError(view)
  /\ UNCHANGED << urls, maxConcurrent, state, urlQueue, eventBuffer, pushed,
                  notifyResolve, genPc, allDone, allWorkersPromise, wpc, wurl,
                  wdata, fd, tmpFile, finalFile, stream, taken, saved,
                  saveFailed, outcomes, srv, mp, ag, lm, api, ap, sse >>

NextView ==
  \/ \E url \in ViewUrls : ReceivePageStart(url)
  \/ \E url \in ViewUrls : ReceivePageComplete(url)
  \/ \E url \in ViewUrls : ReceivePageError(url)
  \/ ReceiveAuditComplete
  \/ ConnectionError

SpecView == InitView /\ [][NextView]_vars





\* ========================================================================
\* Properties
\* ========================================================================
IsStart(e) == e.type = "page_start"
IsTerminal(e) == e.type \in {"page_complete", "page_error"}
NumStarts(s) == Cardinality({ i \in DOMAIN s : IsStart(s[i]) })
NumTerminals(s) == Cardinality({ i \in DOMAIN s : IsTerminal(s[i]) })
Occurrences(s, u) == Cardinality({ i \in DOMAIN s : s[i] = u })
StartUrls(s) ==
  LET f == SelectSeq(s, IsStart) IN [i \in 1..Len(f) |-> f[i].url]
IsPrefix(a, b) == Len(a) <= Len(b) /\ \A i \in 1..Len(a) : a[i] = b[i]
Running == genPc \in {"loop", "waiting"}

\* C1: once the consumer has drained the stream (the generator returned), it
\* has seen exactly len(urls) page_start events, exactly len(urls) terminal
\* events, and audit_complete as the last event.
C1_DrainedStreamComplete ==
  genPc = "done" =>
    /\ NumStarts(stream) = Len(urls)
    /\ NumTerminals(stream) = Len(urls)
    /\ stream /= <<>>
    /\ stream[Len(stream)].type = "audit_complete"

C3_PagesPartitionInput ==
  genPc \in {"loop", "waiting", "done"} =>
    \A u \in UrlIds :
      /\ Occurrences(state.completedPages, u)
           + Occurrences(state.pendingPages, u) = Occurrences(urls, u)
      /\ ~ ( Occurrences(state.completedPages, u) > 0
             /\ Occurrences(state.pendingPages, u) > 0 )

\* The snapshots a save has produced: the text handed to writeFile and the
\* complete files on disk.
SnapshotsWritten ==
  { wdata[w] : w \in { v \in Workers : wpc[v] \in {"open", "write"} } }
    \cup { f.data : f \in { g \in {tmpFile, finalFile} : g.complete } }

\* C4: every snapshot saveSessionState writes has a results entry for every
\* URL of its completedPages, none for a URL of its pendingPages, and
\* totalPages equal to the input length.
C4_SnapshotConsistent ==
  \A d \in SnapshotsWritten :
    /\ \A i \in DOMAIN d.completedPages :
         d.completedPages[i] \in DOMAIN d.results
    /\ \A i \in DOMAIN d.pendingPages :
         d.pendingPages[i] \notin DOMAIN d.results
    /\ d.totalPages = Len(urls)

\* C4 witness: the file at the final path is a snapshot with a completed page
\* and a page still pending.
C4_Witness ==
  /\ finalFile.complete
  /\ finalFile.data.completedPages /= <<>>
  /\ finalFile.data.pendingPages /= <<>>

\* C5: whenever the consumer has observed the terminal event of a URL, the
\* file at the final path lists that URL in completedPages with its result.
C5_PersistedBeforeTerminalEvent ==
  \A i \in DOMAIN stream :
    IsTerminal(stream[i]) =>
      /\ finalFile.complete
      /\ Occurrences(finalFile.data.completedPages, stream[i].url) > 0
      /\ stream[i].url \in DOMAIN finalFile.data.results

\* C6: at every moment the file at the final path is absent or one complete
\* snapshot, and once a save has returned and none is under way no file is
\* left at the temporary path.
C6_AtomicCheckpoint ==
  /\ finalFile.exists => finalFile.complete
  /\ ( /\ saved /= {}
       /\ Running \/ genPc = "done"
       /\ ~saveFailed
       /\ \A w \in Workers : wpc[w] \notin {"open", "write", "rename"} )
       => ~tmpFile.exists

\* C7: after a checkpoint write has failed the run neither finishes normally
\* nor hangs: it can always take a step until the failure has reached the
\* consumer as an error ("threw", a state the generator would be in).
C7_SaveFailurePropagates ==
  (saveFailed /\ genPc /= "killed") =>
    /\ genPc /= "done"
    /\ genPc = "threw" \/ ENABLED PoolStep

SomePageFailed ==
  \E u \in DOMAIN state.results : state.results[u].error /= "null"

\* C8: the failure of a page audit never stops a worker or the run: a worker
\* only ever throws because a checkpoint write failed, a run in which a page
\* failed can always take a step until it has returned, and when it returns
\* every URL has had its page_start and its terminal event and audit_complete
\* is the last event.
C8_PageFailureDoesNotAbort ==
  /\ (\E w \in Workers : wpc[w] = "failed") => saveFailed
  /\ (SomePageFailed /\ ~saveFailed /\ Running) => ENABLED PoolStep
  /\ (SomePageFailed /\ genPc = "done") =>
       /\ \A u \in UrlIds :
            /\ Occurrences(StartUrls(stream), u) = Occurrences(urls, u)
            /\ Cardinality({ i \in DOMAIN stream :
                 IsTerminal(stream[i]) /\ stream[i].url = u })
                 = Occurrences(urls, u)
       /\ stream[Len(stream)].type = "audit_complete"

\* C8 witness: a drained run of several URLs whose first terminal event was a
\* page_error and which went on to complete another page.
C8_Witness ==
  /\ genPc = "done"
  /\ Len(urls) >= 2
  /\ \E i, j \in DOMAIN stream :
       /\ i < j
       /\ stream[i].type = "page_error"
       /\ stream[j].type = "page_complete"
       /\ \A k \in 1..(i-1) : ~IsTerminal(stream[k])

TerminalsPushed == SelectSeq(stream \o eventBuffer, IsTerminal)

\* The URLs whose recorded result (the last one, for a repeated URL) is that
\* of an audit that ended in a navigation error or timeout.
UrlsLastFailed ==
  { u \in UrlIds :
      \E i \in DOMAIN outcomes :
        /\ state.completedPages[i] = u
        /\ outcomes[i] = "navError"
        /\ \A j \in (i+1)..Len(outcomes) : state.completedPages[j] /= u }

C10_FifoDispatch ==
  /\ Running \/ genPc = "done" =>
       /\ taken \o urlQueue = urls
       /\ StartUrls(stream \o eventBuffer) = taken
       /\ Cardinality({ w \in Workers : wpc[w] = "audit" })
            + Len(state.completedPages) = Len(taken)
  /\ IsPrefix(StartUrls(stream), urls)

\* C10 witness: with two workers, the second has finished its page and taken
\* the third URL of the list while the first is still on the first URL.
C10_Witness ==
  /\ urls = <<1, 2, 3>>
  /\ wpc[1] = "audit" /\ wurl[1] = 1
  /\ wpc[2] = "audit" /\ wurl[2] = 3
  /\ StartUrls(stream) = <<1, 2, 3>>

EventsOf(s, u, types) ==
  Cardinality({ i \in DOMAIN s : s[i].type \in types /\ s[i].url = u })

\* C11: in the stream, every terminal event (page_complete or page_error) of
\* a URL comes after a page_start of that URL not yet answered by an earlier
\* terminal event, however the events of other URLs are interleaved.
C11_StartBeforeTerminal ==
  \A i \in DOMAIN stream :
    IsTerminal(stream[i]) =>
      EventsOf(SubSeq(stream, 1, i), stream[i].url,
               {"page_complete", "page_error"})
        <= EventsOf(SubSeq(stream, 1, i - 1), stream[i].url, {"page_start"})

\* C11 witness: the events of two URLs interleaved, the page started second
\* ending first.
C11_Witness ==
  /\ Len(stream) >= 4
  /\ IsStart(stream[1]) /\ stream[1].url = 1
  /\ IsStart(stream[2]) /\ stream[2].url = 2
  /\ IsTerminal(stream[3]) /\ stream[3].url = 2
  /\ IsTerminal(stream[4]) /\ stream[4].url = 1

EventsPushed == stream \o eventBuffer

\* C12: audit_complete is pushed at most once and, in a drained run, exactly
\* once; when it is pushed every worker has exited; its summary has
\* totalPages = len(urls), completedPages = the number of terminal events
\* emitted and failedPages = the number of page_error events emitted.
C12_AuditCompleteSummary ==
  LET completes == { i \in DOMAIN EventsPushed :
                       EventsPushed[i].type = "audit_complete" }
  IN /\ Cardinality(completes) <= 1
     /\ genPc = "done" => Cardinality(completes) = 1
     /\ (Running \/ genPc = "done") =>
          \A i \in completes :
            /\ \A w \in Workers : wpc[w] \in {"none", "exited"}
            /\ EventsPushed[i].summary.totalPages = Len(urls)
            /\ EventsPushed[i].summary.completedPages
                 = NumTerminals(EventsPushed)
            /\ EventsPushed[i].summary.failedPages
                 = Cardinality({ j \in DOMAIN EventsPushed :
                                  EventsPushed[j].type = "page_error" })

\* C13: the number of workers auditPages creates is min(requested, 3), the
\* request defaulting to 2, and is never below 1.
C13_WorkerCount ==
  (Running \/ genPc = "done") =>
    LET requested == IF maxConcurrent = <<>> THEN 2 ELSE maxConcurrent[1]
        created == Cardinality({ w \in Workers : wpc[w] /= "none" })
    IN /\ created >= 1
       /\ requested >= 1 => created = (IF requested <= 3 THEN requested ELSE 3)
\* C17: once saveSessionState has returned for a page, the file at the final
\* path is a complete snapshot that lists the page in completedPages with its
\* result, at every later moment, a kill of the process included.
C17_DurableProgress ==
  \A u \in saved :
    /\ finalFile.complete
    /\ Occurrences(finalFile.data.completedPages, u) > 0
    /\ u \in DOMAIN finalFile.data.results
\* C14: a page whose audit was in flight when the session was marked
\* cancelled finishes with the result of its own audit: its audit is never
\* ended by the closing of its browser context.
C14_InFlightPagesUnaffected == srv.cutInFlight = {}

\* C15 as stated: once the session has been marked cancelled nothing more is
\* written to its SSE client.
C15_NoEventAfterCancel ==
  srv.cancelled => Len(srv.sent) = srv.sentAtCancel

SentAfterCancel == SubSeq(srv.sent, srv.sentAtCancel + 1, Len(srv.sent))

\* C15 amended: once the session has been marked cancelled the audit's loop
\* writes nothing more to its SSE client, and stores no audit_complete; the
\* only event a client can still receive is the replay, on subscription, of
\* an audit_complete that was already stored when the flag was set, that is
\* when the audit had already emitted all its events.
C15_LoopSendsNothingAfterCancel ==
  srv.cancelled =>
    /\ SentAfterCancel = <<>>
         \/ /\ SentAfterCancel = srv.completed
            /\ srv.sentAtCancel = 0
    /\ srv.completed /= <<>> =>
         /\ allDone
         /\ \A w \in Workers : wpc[w] \in {"none", "exited"}
         /\ srv.completed[1] = stream[Len(stream)]

\* C15 witness: a subscribed client had received events when the session
\* was cancelled, the loop has broken, and events pushed since are left in
\* the buffer, unsent.
C15_Witness ==
  /\ srv.cancelled
  /\ srv.connected
  /\ srv.sentAtCancel >= 1
  /\ genPc = "returned"
  /\ \E i \in DOMAIN eventBuffer : IsTerminal(eventBuffer[i])

\* C16: when an audit that was not cancelled is over, a client subscribed to
\* the session has received one terminal event for every audited page and
\* exactly one audit_complete.
C16_ObserverSeesEveryPage ==
  (srv.connected /\ ~srv.cancelled /\ genPc = "done" /\ ~srv.registered) =>
    /\ \A u \in UrlIds :
         EventsOf(SelectSeq(srv.sent, IsTerminal), u,
                  {"page_complete", "page_error"})
           = Occurrences(state.completedPages, u)
    /\ Cardinality({ i \in DOMAIN srv.sent :
                       srv.sent[i].type = "audit_complete" }) = 1
\* C18: mapPageResults with absent rule-engine results (null, or a result
\* carrying error) does not throw and classifies every catalog criterion as
\* manual, whatever its evaluation strategy.
C18_AbsentResultsAreManual ==
  (mp.done /\ mp.input.axeResults.kind \in {"null", "error"}) =>
    /\ ~mp.output.threw
    /\ Len(mp.output.criteria) = Len(mp.input.catalog)
    /\ \A i \in DOMAIN mp.output.criteria :
         mp.output.criteria[i].status = "manual"

\* The status mapPageResults gave to the one criterion of the catalog
MappedStatus == mp.output.criteria[1].status

\* A finding of the category (a set of rule ids) has a rule of the criterion
Matches(category) == category \cap mp.input.catalog[1].axeRules /= {}

\* C19: for an ANY_VIOLATION criterion and present results the status is
\* violation if a violation has a rule of the criterion, otherwise
\* incomplete if an incomplete finding has one, otherwise pass.
C19_AnyViolationStatus ==
  ( /\ mp.done
    /\ mp.input.axeResults.kind = "result"
    /\ mp.input.catalog[1].evaluationStrategy = "ANY_VIOLATION" ) =>
    /\ ~mp.output.threw
    /\ Matches(mp.input.axeResults.violations) => MappedStatus = "violation"
    /\ ( /\ ~Matches(mp.input.axeResults.violations)
         /\ Matches(mp.input.axeResults.incomplete) )
         => MappedStatus = "incomplete"
    /\ ( /\ ~Matches(mp.input.axeResults.violations)
         /\ ~Matches(mp.input.axeResults.incomplete) )
         => MappedStatus = "pass"

\* C19 witness: an ANY_VIOLATION criterion with rules, none of which is in
\* any finding of the page, mapped to pass; the page's findings are of other
\* rules.
C19_Witness ==
  /\ mp.done
  /\ mp.input.axeResults.kind = "result"
  /\ mp.input.catalog[1].evaluationStrategy = "ANY_VIOLATION"
  /\ mp.input.catalog[1].axeRules = {1}
  /\ mp.input.axeResults.violations = {2}
  /\ mp.input.axeResults.incomplete = {2}
  /\ mp.input.axeResults.passes = {}
  /\ MappedStatus = "pass"

\* C20: for an ALL_PASS criterion and present results the status is
\* violation if a violation has a rule of the criterion; otherwise pass if
\* and only if every rule of the criterion is among the page's passes;
\* otherwise incomplete.
C20_AllPassStatus ==
  ( /\ mp.done
    /\ mp.input.axeResults.kind = "result"
    /\ mp.input.catalog[1].evaluationStrategy = "ALL_PASS" ) =>
    /\ ~mp.output.threw
    /\ Matches(mp.input.axeResults.violations) <=> MappedStatus = "violation"
    /\ ~Matches(mp.input.axeResults.violations) =>
         /\ MappedStatus = "pass" <=>
              mp.input.catalog[1].axeRules \subseteq mp.input.axeResults.passes
         /\ MappedStatus \in {"pass", "incomplete"}

\* C20 witness: an ALL_PASS criterion of two rules, one of them among the
\* passes and the other in no finding, mapped to incomplete.
C20_Witness ==
  /\ mp.done
  /\ mp.input.axeResults.kind = "result"
  /\ mp.input.catalog[1].evaluationStrategy = "ALL_PASS"
  /\ mp.input.catalog[1].axeRules = {1, 2}
  /\ mp.input.axeResults.violations = {}
  /\ mp.input.axeResults.passes = {1}
  /\ MappedStatus = "incomplete"

\* C21: a MANUAL_ONLY criterion is mapped to manual whatever the violations,
\* passes and incomplete findings of the page are, and the evidence carrying
\* flags of the criterion's flag set is attached: every image or link with its
\* relevant flags, every heading once per relevant flag, and every relevant
\* page-level flag; nothing else is attached.
C21_ManualOnly ==
  ( /\ mp.done
    /\ mp.input.catalog[1].evaluationStrategy = "MANUAL_ONLY" ) =>
    LET relevant == mp.input.catalog[1].dataCollectorFlags
        data == mp.input.collectedData
        out == mp.output.criteria[1].elements
        Attached(e) == \E j \in DOMAIN out : out[j] = e
    IN /\ ~mp.output.threw
       /\ MappedStatus = "manual"
       /\ mp.output.criteria[1].violations = {}
       /\ mp.output.criteria[1].incompletes = {}
       /\ \A j \in DOMAIN out :
            out[j].flags /= {} /\ out[j].flags \subseteq relevant
       /\ data.kind = "null" => out = <<>>
       /\ data.kind = "data" =>
            /\ \A i \in DOMAIN data.elements :
                 data.elements[i].flags \cap relevant /= {} =>
                   Attached([selector |-> data.elements[i].selector,
                             flags |-> data.elements[i].flags \cap relevant])
            /\ \A i \in DOMAIN data.headings :
                 \A f \in data.headings[i].flags \cap relevant :
                   Attached([selector |-> data.headings[i].selector,
                             flags |-> {f}])
            /\ \A f \in data.pageFlags \cap relevant :
                 \E j \in DOMAIN out : f \in out[j].flags
            /\ Len(out) <= Len(data.elements)
                           + Cardinality(relevant) * (Len(data.headings) + 1)

\* C21 witness: a MANUAL_ONLY criterion whose rule is violated on the page,
\* mapped to manual with the flagged image and the page-level flag attached.
C21_Witness ==
  /\ mp.done
  /\ mp.input.catalog[1].evaluationStrategy = "MANUAL_ONLY"
  /\ mp.input.catalog[1].axeRules = {1}
  /\ mp.input.catalog[1].dataCollectorFlags = {1}
  /\ mp.input.axeResults.kind = "result"
  /\ mp.input.axeResults.violations = {1}
  /\ mp.input.collectedData.kind = "data"
  /\ mp.input.collectedData.pageFlags = {1}
  /\ mp.input.collectedData.headings = <<>>
  /\ Len(mp.input.collectedData.elements) = 1
  /\ mp.input.collectedData.elements[1].flags = {1, 2}
  /\ MappedStatus = "manual"
  /\ mp.output.criteria[1].elements = << [selector |-> "img", flags |-> {1}] >>

\* The classifications of the pages handed to aggregateResults, and the
\* statuses they give to a criterion id.
PageClassifications ==
  UNION { { ag.input.mappedPages[p].criteria[k] :
              k \in DOMAIN ag.input.mappedPages[p].criteria } :
            p \in DOMAIN ag.input.mappedPages }
PageStatuses(id) ==
  { c.status : c \in { x \in PageClassifications : x.rgaaId = id } }

\* C22: the status of every aggregated criterion follows the precedence over
\* the pages folded: violation if a page violates it; else incomplete if a
\* page is incomplete; else manual if a page is manual and none passes; else
\* pass if a page passes; else manual.
C22_StatusPrecedence ==
  ag.done =>
    \A i \in DOMAIN ag.output.summary.criteria :
      LET agg == ag.output.summary.criteria[i]
          given == PageStatuses(agg.rgaaId)
      IN agg.status =
           IF "violation" \in given THEN "violation"
           ELSE IF "incomplete" \in given THEN "incomplete"
           ELSE IF "manual" \in given /\ "pass" \notin given THEN "manual"
           ELSE IF "pass" \in given THEN "pass"
           ELSE "manual"

\* C22 witness: a criterion incomplete on one page and passed on the other,
\* aggregated to incomplete, next to one manual on a page and passed on the
\* other, aggregated to pass.
C22_Witness ==
  /\ ag.done
  /\ ag.input.catalog = ShortCatalog
  /\ Len(ag.input.mappedPages) = 2
  /\ PageStatuses("1.1") = {"incomplete", "pass"}
  /\ PageStatuses("6.1") = {"manual", "pass"}
  /\ ag.output.summary.criteria[1].status = "incomplete"
  /\ ag.output.summary.criteria[2].status = "pass"

\* The ids of the aggregated criteria are the catalog's, in catalog order.
OneEntryPerCriterion ==
  /\ Len(ag.output.summary.criteria) = Len(ag.input.catalog)
  /\ \A i \in DOMAIN ag.input.catalog :
       ag.output.summary.criteria[i].rgaaId = ag.input.catalog[i]

\* C23 as stated: aggregateResults over zero pages returns one entry per
\* catalog criterion, each with status pass.
C23_ZeroPagesAllPass ==
  (ag.done /\ ag.input.mappedPages = <<>>) =>
    /\ OneEntryPerCriterion
    /\ \A i \in DOMAIN ag.output.summary.criteria :
         ag.output.summary.criteria[i].status = "pass"

\* C23 amended: aggregateResults over zero pages returns one entry per
\* catalog criterion, each with status manual and with no page in any of its
\* lists.
C23_ZeroPagesAllManual ==
  (ag.done /\ ag.input.mappedPages = <<>>) =>
    /\ OneEntryPerCriterion
    /\ \A i \in DOMAIN ag.output.summary.criteria :
         /\ ag.output.summary.criteria[i].status = "manual"
         /\ ag.output.summary.criteria[i].pagesViolating = <<>>
         /\ ag.output.summary.criteria[i].pagesPass = <<>>
         /\ ag.output.summary.criteria[i].pagesManual = <<>>
         /\ ag.output.summary.criteria[i].pagesIncomplete = <<>>
    /\ ag.output.summary.manual = Len(ag.input.catalog)
    /\ ag.output.summary.passes = 0

\* C23 witness: a call with no page has returned the two criteria of the
\* catalog.
C23_Witness ==
  /\ ag.done
  /\ ag.input.mappedPages = <<>>
  /\ ag.input.catalog = ShortCatalog
  /\ Len(ag.output.summary.criteria) = 2
  /\ ag.output.summary.totalCriteria = 2

\* The links of the page of an evidence entry that carry a label.
LabelledLinks(entry) ==
  IF entry.collectedData.kind /= "data" THEN {}
  ELSE { l \in { entry.collectedData.links[j] :
                   j \in DOMAIN entry.collectedData.links } :
           Normalized(l.accessibleLabel) /= "" }

\* Links on two different pages carry the same normalized label and
\* different destinations.
SameLabelAcrossPages ==
  /\ ag.input.allCollectedData.supplied
  /\ \E d1, d2 \in DOMAIN ag.input.allCollectedData.entries :
       /\ d1 /= d2
       /\ \E l1 \in LabelledLinks(ag.input.allCollectedData.entries[d1]),
             l2 \in LabelledLinks(ag.input.allCollectedData.entries[d2]) :
            /\ Normalized(l1.accessibleLabel) = Normalized(l2.accessibleLabel)
            /\ l1.href \in {"/a", "/b"}
            /\ l2.href \in {"/a", "/b"}
            /\ l1.href /= l2.href

\* C24: when the collected data is handed over and links on different pages
\* carry the same normalized label and different destinations, the aggregated
\* status of criterion 6.1 is violation, even if every page passed it.
C24_DuplicateLabelsViolate ==
  ( /\ ag.done
    /\ SameLabelAcrossPages
    /\ \A p \in DOMAIN ag.input.mappedPages :
         \E k \in DOMAIN ag.input.mappedPages[p].criteria :
           ag.input.mappedPages[p].criteria[k].rgaaId = "6.1" ) =>
    \A i \in DOMAIN ag.output.summary.criteria :
      ag.output.summary.criteria[i].rgaaId = "6.1" =>
        ag.output.summary.criteria[i].status = "violation"

\* The hrefs of the links that carry a normalized label on any page of the
\* evidence, and the links whose label has more than one of them.
HrefsOfLabel(normalized) ==
  { l.href :
      l \in { x \in UNION { LabelledLinks(ag.input.allCollectedData.entries[d]) :
                              d \in DOMAIN ag.input.allCollectedData.entries } :
                Normalized(x.accessibleLabel) = normalized /\ x.href /= NoHref } }
HasDuplicateLabel(link) ==
  /\ Normalized(link.accessibleLabel) /= ""
  /\ Cardinality(HrefsOfLabel(Normalized(link.accessibleLabel))) > 1

\* The elements of criterion 6.1 of page p after the call that carry
\* DUPLICATE_LABEL, by selector.
FlaggedSelectors(p) ==
  LET criteria == ag.output.mappedPages[p].criteria
  IN { e.selector :
         e \in { x \in UNION { { criteria[k].elements[j] :
                                   j \in DOMAIN criteria[k].elements } :
                                 k \in { i \in DOMAIN criteria :
                                           criteria[i].rgaaId = "6.1" } } :
                   "DUPLICATE_LABEL" \in x.flags } }

\* C25: with the collected data handed over, on every page that has a 6.1
\* classification the element of a link carries DUPLICATE_LABEL after the
\* call if and only if the link's label, lower-cased and trimmed, is carried
\* across all pages by links with more than one distinct href.
C25_DuplicateFlagIff ==
  (ag.done /\ ag.input.allCollectedData.supplied) =>
    \A p \in DOMAIN ag.input.mappedPages :
      LET entry == ag.input.allCollectedData.entries[p]
          links == IF entry.collectedData.kind = "data"
                   THEN { entry.collectedData.links[j] :
                            j \in DOMAIN entry.collectedData.links }
                   ELSE {}
      IN ag.input.mappedPages[p].criteria /= <<>> =>
           /\ \A l \in links :
                HasDuplicateLabel(l) => l.selector \in FlaggedSelectors(p)
           /\ \A sel \in FlaggedSelectors(p) :
                \E l \in links : l.selector = sel /\ HasDuplicateLabel(l)

\* The pages of the call that classify a criterion as violated, and the
\* place of a criterion in the catalog.
ViolatingPages(id) ==
  { ag.input.mappedPages[p].url :
      p \in { q \in DOMAIN ag.input.mappedPages :
                \E k \in DOMAIN ag.input.mappedPages[q].criteria :
                  /\ ag.input.mappedPages[q].criteria[k].rgaaId = id
                  /\ ag.input.mappedPages[q].criteria[k].status = "violation" } }
CatalogIndex(id) ==
  CHOOSE i \in DOMAIN ag.input.catalog : ag.input.catalog[i] = id
RanksBefore(a, b) ==
  \/ Cardinality(ViolatingPages(a)) > Cardinality(ViolatingPages(b))
  \/ /\ Cardinality(ViolatingPages(a)) = Cardinality(ViolatingPages(b))
     /\ CatalogIndex(a) < CatalogIndex(b)

\* C26: topIssues holds only criteria of the catalog with at least one
\* violating page, each with the number of its distinct violating pages, in
\* descending order of that number with ties in catalog order; it has at most
\* 5 entries, and a violated criterion is left out only behind 5 entries that
\* rank before it.
C26_TopIssues ==
  ag.done =>
    LET top == ag.output.summary.topIssues
        ids == { top[i].rgaaId : i \in DOMAIN top }
    IN /\ Len(top) <= TopIssuesLimit
       /\ \A i \in DOMAIN top :
            /\ \E k \in DOMAIN ag.input.catalog :
                 ag.input.catalog[k] = top[i].rgaaId
            /\ Cardinality(ViolatingPages(top[i].rgaaId)) >= 1
            /\ top[i].pagesAffected = Cardinality(ViolatingPages(top[i].rgaaId))
       /\ \A i, j \in DOMAIN top :
            i < j => RanksBefore(top[i].rgaaId, top[j].rgaaId)
       /\ \A k \in DOMAIN ag.input.catalog :
            ( /\ ViolatingPages(ag.input.catalog[k]) /= {}
              /\ ag.input.catalog[k] \notin ids ) =>
              /\ Len(top) = TopIssuesLimit
              /\ \A i \in DOMAIN top :
                   RanksBefore(top[i].rgaaId, ag.input.catalog[k])

\* C26 witness: six violated criteria; the last of the catalog is violated on
\* two pages and comes first, the others on one page follow in catalog order,
\* and the fifth of them is cut off.
C26_Witness ==
  /\ ag.done
  /\ ag.input.catalog = CatalogIds
  /\ \A k \in DOMAIN CatalogIds : ViolatingPages(CatalogIds[k]) /= {}
  /\ Len(ag.output.summary.topIssues) = 5
  /\ ag.output.summary.topIssues[1] = [rgaaId |-> "12.1", pagesAffected |-> 2]
  /\ \A i \in 2..5 :
       ag.output.summary.topIssues[i] =
         [rgaaId |-> CatalogIds[i - 1], pagesAffected |-> 1]

\* C27: the criteria list returned holds every criterion of the catalog
\* exactly once and nothing else, for any number of pages and whatever ids
\* the pages mention.
C27_EveryCriterionOnce ==
  ag.done =>
    /\ \A k \in DOMAIN ag.input.catalog :
         Cardinality({ i \in DOMAIN ag.output.summary.criteria :
                         ag.output.summary.criteria[i].rgaaId
                           = ag.input.catalog[k] }) = 1
    /\ \A i \in DOMAIN ag.output.summary.criteria :
         \E k \in DOMAIN ag.input.catalog :
           ag.output.summary.criteria[i].rgaaId = ag.input.catalog[k]
    /\ ag.output.summary.totalCriteria = Len(ag.input.catalog)

\* C27 witness: two pages that mention an id the catalog lacks and leave out
\* criterion 6.1; the list returned has the two criteria of the catalog.
C27_Witness ==
  /\ ag.done
  /\ ag.input.catalog = ShortCatalog
  /\ Len(ag.input.mappedPages) = 2
  /\ PageStatuses(UnknownId) = {"violation"}
  /\ PageStatuses("6.1") = {}
  /\ PageStatuses("1.1") = {"pass"}
  /\ Len(ag.output.summary.criteria) = 2
  /\ ag.output.summary.criteria[2].rgaaId = "6.1"
  /\ ag.output.summary.criteria[2].status = "manual"

\* The cache as it is before event i of the history of loadMapping: what
\* the last call or reset before it left.
RECURSIVE CacheBefore(_)
CacheBefore(i) ==
  IF i = 1 THEN NullMapping
  ELSE IF lm.history[i - 1].type = "load"
  THEN lm.history[i - 1].call.cachedMapping
  ELSE IF lm.history[i - 1].type = "reset" THEN NullMapping
  ELSE CacheBefore(i - 1)

\* The mapping file is missing, malformed, without a version or without a
\* non-empty criteria list.
UnusableFile(file) ==
  \/ ~file.exists
  \/ file.raw \in { "{", "null", "{}", "{version:'4.1'}",
                    "{version:'4.1',criteria:[]}",
                    "{version:'',criteria:['1.1']}" }

\* C28: a call of loadMapping that finds a cached catalog returns it without
\* reading the file, so after a successful call every later call returns the
\* same catalog; a call without a cached catalog reads the file, and throws
\* and leaves the cache empty if the file is missing, malformed, without a
\* version or without criteria, so that the next call reads the file again;
\* otherwise it returns and caches the catalog of the file.
C28_LoadMappingCached ==
  \A i \in DOMAIN lm.history :
    lm.history[i].type = "load" =>
      LET call == lm.history[i].call
          before == CacheBefore(i)
      IN /\ before.kind /= "null" =>
              /\ ~call.read
              /\ call.threw = ""
              /\ call.value = before
              /\ call.cachedMapping = before
         /\ before.kind = "null" =>
              /\ call.read
              /\ UnusableFile(lm.history[i].file) =>
                   call.threw /= "" /\ call.cachedMapping.kind = "null"
              /\ ~UnusableFile(lm.history[i].file) =>
                   /\ call.threw = ""
                   /\ call.value.kind = "object"
                   /\ call.value = JSONParse(lm.history[i].file.raw).value
                   /\ call.cachedMapping = call.value

\* C28 witness: a call fails on a file without version, the file is replaced
\* by a valid one, the next call loads it, the file is replaced again and the
\* last call still returns the catalog loaded before.
C28_Witness ==
  /\ Len(lm.history) = 5
  /\ lm.history[1].type = "load"
  /\ lm.history[1].call.threw = "version absente"
  /\ lm.history[2].type = "write"
  /\ lm.history[3].type = "load"
  /\ lm.history[3].call.threw = ""
  /\ lm.history[3].call.value.version = "4.1"
  /\ lm.history[4].type = "write"
  /\ lm.history[5].type = "load"
  /\ lm.history[5].file.raw = "{version:'4.2',criteria:['1.1','6.1']}"
  /\ lm.history[5].call.value.version = "4.1"
  /\ ~lm.history[5].call.read

C30_AuditPageNeverThrows ==
  ap.done =>
    LET failed == \/ ap.input.goto.rejected
                  \/ ap.input.analyze.rejected
                  \/ ap.input.collect.rejected
        out == ap.output
    IN /\ ~out.threw
       /\ out.url = ap.input.url
       /\ failed =>
            /\ out.error /= NullError
            /\ out.axeResults = NullResult
            /\ out.collectedData = NullData
       /\ ~failed =>
            /\ out.error = NullError
            /\ out.axeResults = ap.input.analyze.value
            /\ out.axeResults /= NullResult
            /\ out.collectedData = ap.input.collect.value
            /\ out.collectedData /= NullData
       /\ (out.error /= NullError) <=>
            (out.axeResults = NullResult /\ out.collectedData = NullData)
       /\ (out.axeResults = NullResult) <=> (out.collectedData = NullData)

\* C30 witness: the navigation succeeded, the engine returned findings and
\* the collection timed out; the result has the error and no evidence.
C30_Witness ==
  /\ ap.done
  /\ ~ap.input.goto.rejected
  /\ ap.input.analyze.value.kind = "result"
  /\ ap.input.analyze.value.violations /= {}
  /\ ap.input.collect.rejected
  /\ ap.output.error = "Timeout 30000ms exceeded"
  /\ ap.output.axeResults = NullResult
  /\ ap.output.collectedData = NullData

\* C31: checkpoint writes of one session are serialized: at most one worker
\* at a time is between serializing the session (the argument of writeFile)
\* and the completion of its rename.
InCheckpointWrite(w) == wpc[w] \in {"open", "write", "rename"}

C31_CheckpointWritesSerialized ==
  Cardinality({ w \in Workers : InCheckpointWrite(w) }) <= 1

\* C32: the buffer and the wake signal lose, duplicate and reorder nothing.
\* While the generator lives, the events yielded so far followed by those
\* still in the buffer are the pushEvent calls so far, in call order; the
\* generator is never parked while an event is in the buffer; and when it
\* has returned, the yielded sequence is the sequence of pushEvent calls.
C32_YieldedEqualsPushed ==
  /\ genPc /= "killed" => pushed = stream \o eventBuffer
  /\ genPc = "killed" => IsPrefix(stream, pushed)
  /\ genPc = "waiting" => (eventBuffer = <<>> /\ notifyResolve)
  /\ notifyResolve => genPc = "waiting"
  /\ genPc = "done" => (stream = pushed /\ eventBuffer = <<>>)

\* A drained run of the longest list with several workers: pushes and pulls
\* interleaved, every event yielded.
C32_Witness ==
  /\ genPc = "done"
  /\ Len(urls) = MaxUrls
  /\ Concurrency(maxConcurrent) >= 2
  /\ stream = pushed
  /\ Len(pushed) = 2 * Len(urls) + 1

\* C33: while the consumer keeps pulling, every run over a finite list ends:
\* the generator yields audit_complete and returns (through its finally
\* block, which closes the contexts and the browser), and no worker is left
\* with an open page.
IsAuditComplete(ev) == ev.type = "audit_complete"

C33_RunTerminates ==
  <>( /\ genPc = "done"
      /\ stream /= <<>>
      /\ IsAuditComplete(stream[Len(stream)])
      /\ \A w \in Workers : Started(w) => wpc[w] = "exited" )

\* C35 (as stated): a client that subscribes after the audit has emitted
\* audit_complete receives the audit_complete event at once, as the first
\* thing written to it.
ReceivedAuditComplete ==
  /\ srv.sent /= <<>>
  /\ srv.sent[1].type = "audit_complete"

C35_LateSubscriberReceivesComplete ==
  srv.lateSubscriber => ReceivedAuditComplete

\* C35 (amended): a client that subscribes after the loop has stored the
\* audit_complete event (the audit was not cancelled before the loop reached
\* it) receives exactly that stored event at once; when the audit was
\* cancelled before, nothing is stored and the late client receives nothing.
C35_LateSubscriberReceivesStored ==
  srv.lateSubscriber =>
    IF srv.completed /= <<>>
    THEN srv.sent = << srv.completed[1] >> /\ ReceivedAuditComplete
    ELSE srv.sent = <<>> /\ srv.cancelled

C35_Witness ==
  /\ srv.lateSubscriber
  /\ srv.completed /= <<>>
  /\ srv.sent = << srv.completed[1] >>
  /\ ~srv.registered

\* C34: a session's client stays registered as long as the response most
\* recently added under its id is open; in particular the close of an
\* earlier response of the same id does not unregister it.
C34_LatestResponseStaysRegistered ==
  \A id \in SessionIds :
    (sse.latest[id] /= NoClient /\ sse.latest[id] \in sse.open)
      => sse.clients[id] = sse.latest[id]

\* C39: the completed counter is the number of listed pages whose status is
\* done or error, and never exceeds total, the number of listed pages.
Finished(pages) ==
  Cardinality({ i \in 1..Len(pages) : pages[i].status \in {"done", "error"} })

C39_CompletedCountsListedPages ==
  /\ view.completed = Finished(view.pages)
  /\ view.completed <= view.total
  /\ view.total = Len(view.pages)

\* C36: once audit_complete has been pushed by auditPages, no step of the
\* program changes the session state, moves a worker or touches the session
\* files, and in every such state all workers have exited (a kill of the
\* process, which loses the memory, aside).
AfterAuditComplete ==
  \E i \in 1..Len(pushed) : pushed[i].type = "audit_complete"

C36_NoMutationAfterComplete ==
  [][ (AfterAuditComplete /\ genPc' /= "killed") =>
        /\ state' = state
        /\ wpc' = wpc
        /\ wdata' = wdata
        /\ tmpFile' = tmpFile
        /\ finalFile' = finalFile
        /\ \A w \in Workers : wpc[w] \in {"none", "exited"} ]_vars

\* After audit_complete the generator still takes steps (it yields the
\* event and returns) while the state and the file stay as they are.
C36_Witness ==
  /\ AfterAuditComplete
  /\ genPc = "done"
  /\ Len(urls) = MaxSaveUrls
  /\ Concurrency(maxConcurrent) >= 2
  /\ Len(state.completedPages) = Len(urls)
  /\ finalFile.complete

\* C37: aggregateResults leaves every per-page classification as it was
\* given, status and elements, when no evidence is handed over, and also
\* when evidence is handed over in which no normalized label is carried by
\* links with more than one (non-empty) destination.
EvidenceLinks ==
  UNION { LabelledLinks(ag.input.allCollectedData.entries[d]) :
            d \in DOMAIN ag.input.allCollectedData.entries }

SingleDestinationLabels ==
  \A l \in EvidenceLinks :
    Cardinality(HrefsOfLabel(Normalized(l.accessibleLabel)) \ {""}) <= 1

C37_PagesLeftUnchanged ==
  ( /\ ag.done
    /\ \/ ~ag.input.allCollectedData.supplied
       \/ SingleDestinationLabels ) =>
    ag.output.mappedPages = ag.input.mappedPages

\* C37 witness: evidence with a labelled link that has a destination, on a
\* page that passed 6.1; the page comes back as it was.
C37_Witness ==
  /\ ag.done
  /\ ag.input.allCollectedData.supplied
  /\ SingleDestinationLabels
  /\ \E l \in EvidenceLinks : HasHref(l.href)
  /\ Len(ag.input.mappedPages) = 2
  /\ ag.input.mappedPages[1].criteria = << LinkCriterion("pass", <<>>) >>
  /\ ag.output.mappedPages = ag.input.mappedPages

\* C38: after the call, for every page and every classification of a
\* criterion of the catalog, the page's URL is in the page list of the
\* aggregated criterion that corresponds to the classification's status, and
\* in none of its other three lists.
InList(pageList, url) == \E i \in DOMAIN pageList : pageList[i] = url

PageListOf(agg, status) ==
  IF status = "violation" THEN agg.pagesViolating
  ELSE IF status = "pass" THEN agg.pagesPass
  ELSE IF status = "manual" THEN agg.pagesManual
  ELSE agg.pagesIncomplete

C38_PageListedUnderItsStatus ==
  ag.done =>
    \A p \in DOMAIN ag.output.mappedPages :
      \A k \in DOMAIN ag.output.mappedPages[p].criteria :
        \A i \in DOMAIN ag.output.summary.criteria :
          LET page == ag.output.mappedPages[p]
              c == page.criteria[k]
              agg == ag.output.summary.criteria[i]
          IN agg.rgaaId = c.rgaaId =>
               \A s \in Statuses :
                 InList(PageListOf(agg, s), page.url) <=> s = c.status

TypeOK ==
  /\ genPc \in {"idle", "loop", "waiting", "done", "returned", "killed"}
  /\ \A w \in Workers :
       wpc[w] \in {"none", "audit", "mkdir", "open", "write", "rename",
                   "close", "exited", "failed"}

====
